---------------------------- MODULE Spec2Model ----------------------------
(***************************************************************************)
(* rr7-tuner: the manifest reconciler (package.json merge), the route      *)
(* registry patcher (app/routes.ts), the integration procedures and the    *)
(* orchestrator that runs them in CLI or interactive mode.                 *)
(*                                                                         *)
(* Text is modelled as a sequence of one-character strings, so that the    *)
(* regular expressions, includes(), replace(), trim() and join() of the    *)
(* patcher are computed on the characters, as the code computes them.      *)
(***************************************************************************)
EXTENDS Integers, Sequences, FiniteSets, TLC

VARIABLES
    pkgFile,      \* package.json: [exists, parses, value, fmt]
    routesFile,   \* app/routes.ts: [exists, content]
    files,        \* every other path of the project: path -> content tag
    lastCall,     \* the last operation applied and how it ended
    history,      \* the manifest patches applied so far, oldest first
    pkg0,         \* package.json as it was before the first operation
    pc,           \* the orchestrator's position in run()
    request,      \* the argv / the interactive answers of this run
    shell,        \* the outcome of the external commands of this run
    calls,        \* the integration procedures called so far, in order
    exitCode      \* the process exit code ("running" until it exits)

vars == <<pkgFile, routesFile, files, lastCall, history, pkg0, pc, request,
          shell, calls, exitCode>>

NL == "\n"

(***************************************************************************)
(* The literal texts of updateRoutesFile.                                  *)
(***************************************************************************)
\* the text export default [
ExportOpen ==
    <<"e", "x", "p", "o", "r", "t", " ", "d", "e", "f", "a", "u", "l", "t", " ", "[">>

\* the text ] satisfies RouteConfig;
ExportClose ==
    <<"]", " ", "s", "a", "t", "i", "s", "f", "i", "e", "s", " ", "R", "o", "u", "t", "e", "C",
      "o", "n", "f", "i", "g", ";">>

\* the text import
ImportWord ==
    <<"i", "m", "p", "o", "r", "t">>

\* the text from "@react-router/dev/routes";
FromRoutes ==
    <<"f", "r", "o", "m", " ", "\"", "@", "r", "e", "a", "c", "t", "-", "r", "o", "u", "t",
      "e", "r", "/", "d", "e", "v", "/", "r", "o", "u", "t", "e", "s", "\"", ";">>

\* the text route
RouteWord ==
    <<"r", "o", "u", "t", "e">>

\* the text index
IndexWord ==
    <<"i", "n", "d", "e", "x">>

\* the text route, index
RouteIndexWords ==
    <<"r", "o", "u", "t", "e", ",", " ", "i", "n", "d", "e", "x">>

\* the text ,\n  
JoinSep ==
    <<",", NL, " ", " ">>

\* the text index("
IndexCallOpen ==
    <<"i", "n", "d", "e", "x", "(", "\"">>

\* the text route("
RouteCallOpen ==
    <<"r", "o", "u", "t", "e", "(", "\"">>

\* the text ", "
ArgSep ==
    <<"\"", ",", " ", "\"">>

\* the text ")
CallClose ==
    <<"\"", ")">>

\* the text \n\n
BlankLine ==
    <<NL, NL>>

\* the text /
Slash ==
    <<"/">>

\* the text import { type RouteConfig, index } 
ImportPlain ==
    <<"i", "m", "p", "o", "r", "t", " ", "{", " ", "t", "y", "p", "e", " ", "R", "o", "u", "t",
      "e", "C", "o", "n", "f", "i", "g", ",", " ", "i", "n", "d", "e", "x", " ", "}", " ">>

\* the text import { type RouteConfig } 
ImportNoIndex ==
    <<"i", "m", "p", "o", "r", "t", " ", "{", " ", "t", "y", "p", "e", " ", "R", "o", "u", "t",
      "e", "C", "o", "n", "f", "i", "g", " ", "}", " ">>

\* the text import { type RouteConfig, index, route } 
ImportWithRoute ==
    <<"i", "m", "p", "o", "r", "t", " ", "{", " ", "t", "y", "p", "e", " ", "R", "o", "u", "t",
      "e", "C", "o", "n", "f", "i", "g", ",", " ", "i", "n", "d", "e", "x", ",", " ", "r", "o",
      "u", "t", "e", " ", "}", " ">>

\* the text import { type RouteConfig, index } from '@react-router/dev/routes';
ImportSingleQuoted ==
    <<"i", "m", "p", "o", "r", "t", " ", "{", " ", "t", "y", "p", "e", " ", "R", "o", "u", "t",
      "e", "C", "o", "n", "f", "i", "g", ",", " ", "i", "n", "d", "e", "x", " ", "}", " ", "f",
      "r", "o", "m", " ", "'", "@", "r", "e", "a", "c", "t", "-", "r", "o", "u", "t", "e", "r",
      "/", "d", "e", "v", "/", "r", "o", "u", "t", "e", "s", "'", ";">>

\* the text // app routes\n
CommentLine ==
    <<"/", "/", " ", "a", "p", "p", " ", "r", "o", "u", "t", "e", "s", NL>>

\* the text index("routes/home.tsx")
HomeEntry ==
    <<"i", "n", "d", "e", "x", "(", "\"", "r", "o", "u", "t", "e", "s", "/", "h", "o", "m",
      "e", ".", "t", "s", "x", "\"", ")">>

\* the text route("about", "routes/about.tsx")
AboutEntry ==
    <<"r", "o", "u", "t", "e", "(", "\"", "a", "b", "o", "u", "t", "\"", ",", " ", "\"", "r",
      "o", "u", "t", "e", "s", "/", "a", "b", "o", "u", "t", ".", "t", "s", "x", "\"", ")">>

\* the text ] satisfies RouteConfig
ExportCloseNoSemi ==
    <<"]", " ", "s", "a", "t", "i", "s", "f", "i", "e", "s", " ", "R", "o", "u", "t", "e", "C",
      "o", "n", "f", "i", "g">>

\* the text routes/home.tsx
FileHome ==
    <<"r", "o", "u", "t", "e", "s", "/", "h", "o", "m", "e", ".", "t", "s", "x">>

\* the text /posts
PathPosts ==
    <<"/", "p", "o", "s", "t", "s">>

\* the text routes/posts.tsx
FilePosts ==
    <<"r", "o", "u", "t", "e", "s", "/", "p", "o", "s", "t", "s", ".", "t", "s", "x">>

\* the text /posts/:postId
PathPost ==
    <<"/", "p", "o", "s", "t", "s", "/", ":", "p", "o", "s", "t", "I", "d">>

\* the text routes/posts.$postId.tsx
FilePost ==
    <<"r", "o", "u", "t", "e", "s", "/", "p", "o", "s", "t", "s", ".", "$", "p", "o", "s", "t",
      "I", "d", ".", "t", "s", "x">>

\* the text /posts/new
PathPostNew ==
    <<"/", "p", "o", "s", "t", "s", "/", "n", "e", "w">>

\* the text routes/posts.new.tsx
FilePostNew ==
    <<"r", "o", "u", "t", "e", "s", "/", "p", "o", "s", "t", "s", ".", "n", "e", "w", ".", "t",
      "s", "x">>

\* the text /api/auth/*
PathAuthApi ==
    <<"/", "a", "p", "i", "/", "a", "u", "t", "h", "/", "*">>

\* the text routes/api/auth/route.ts
FileAuthApi ==
    <<"r", "o", "u", "t", "e", "s", "/", "a", "p", "i", "/", "a", "u", "t", "h", "/", "r", "o",
      "u", "t", "e", ".", "t", "s">>

\* the text /sign-in
PathSignIn ==
    <<"/", "s", "i", "g", "n", "-", "i", "n">>

\* the text routes/auth/sign-in/route.tsx
FileSignIn ==
    <<"r", "o", "u", "t", "e", "s", "/", "a", "u", "t", "h", "/", "s", "i", "g", "n", "-", "i",
      "n", "/", "r", "o", "u", "t", "e", ".", "t", "s", "x">>

\* the text /sign-up
PathSignUp ==
    <<"/", "s", "i", "g", "n", "-", "u", "p">>

\* the text routes/auth/sign-up/route.tsx
FileSignUp ==
    <<"r", "o", "u", "t", "e", "s", "/", "a", "u", "t", "h", "/", "s", "i", "g", "n", "-", "u",
      "p", "/", "r", "o", "u", "t", "e", ".", "t", "s", "x">>

\* the text /dashboard
PathDashboard ==
    <<"/", "d", "a", "s", "h", "b", "o", "a", "r", "d">>

\* the text routes/dashboard/route.tsx
FileDashboard ==
    <<"r", "o", "u", "t", "e", "s", "/", "d", "a", "s", "h", "b", "o", "a", "r", "d", "/", "r",
      "o", "u", "t", "e", ".", "t", "s", "x">>

\* the text /todos
PathTodos ==
    <<"/", "t", "o", "d", "o", "s">>

\* the text routes/todos.tsx
FileTodos ==
    <<"r", "o", "u", "t", "e", "s", "/", "t", "o", "d", "o", "s", ".", "t", "s", "x">>

\* the text /todos/:todoId
PathTodo ==
    <<"/", "t", "o", "d", "o", "s", "/", ":", "t", "o", "d", "o", "I", "d">>

\* the text routes/todos.$todoId.tsx
FileTodo ==
    <<"r", "o", "u", "t", "e", "s", "/", "t", "o", "d", "o", "s", ".", "$", "t", "o", "d", "o",
      "I", "d", ".", "t", "s", "x">>

\* the text /todos/new
PathTodoNew ==
    <<"/", "t", "o", "d", "o", "s", "/", "n", "e", "w">>

\* the text routes/todos.new.tsx
FileTodoNew ==
    <<"r", "o", "u", "t", "e", "s", "/", "t", "o", "d", "o", "s", ".", "n", "e", "w", ".", "t",
      "s", "x">>

\* the text /checkout
PathCheckout ==
    <<"/", "c", "h", "e", "c", "k", "o", "u", "t">>

\* the text routes/checkout/route.ts
FileCheckout ==
    <<"r", "o", "u", "t", "e", "s", "/", "c", "h", "e", "c", "k", "o", "u", "t", "/", "r", "o",
      "u", "t", "e", ".", "t", "s">>

\* the text /customer-portal
PathPortal ==
    <<"/", "c", "u", "s", "t", "o", "m", "e", "r", "-", "p", "o", "r", "t", "a", "l">>

\* the text routes/customer-portal/route.ts
FilePortal ==
    <<"r", "o", "u", "t", "e", "s", "/", "c", "u", "s", "t", "o", "m", "e", "r", "-", "p", "o",
      "r", "t", "a", "l", "/", "r", "o", "u", "t", "e", ".", "t", "s">>

\* the text /api/polar/webhooks
PathWebhooks ==
    <<"/", "a", "p", "i", "/", "p", "o", "l", "a", "r", "/", "w", "e", "b", "h", "o", "o", "k",
      "s">>

\* the text routes/api/polar/webhooks/route.ts
FileWebhooks ==
    <<"r", "o", "u", "t", "e", "s", "/", "a", "p", "i", "/", "p", "o", "l", "a", "r", "/", "w",
      "e", "b", "h", "o", "o", "k", "s", "/", "r", "o", "u", "t", "e", ".", "t", "s">>

\* the text /products
PathProducts ==
    <<"/", "p", "r", "o", "d", "u", "c", "t", "s">>

\* the text routes/products/route.tsx
FileProducts ==
    <<"r", "o", "u", "t", "e", "s", "/", "p", "r", "o", "d", "u", "c", "t", "s", "/", "r", "o",
      "u", "t", "e", ".", "t", "s", "x">>

\* the text /pricing
PathPricing ==
    <<"/", "p", "r", "i", "c", "i", "n", "g">>

\* the text routes/pricing/route.tsx
FilePricing ==
    <<"r", "o", "u", "t", "e", "s", "/", "p", "r", "i", "c", "i", "n", "g", "/", "r", "o", "u",
      "t", "e", ".", "t", "s", "x">>

(***************************************************************************)
(* JavaScript string operations on character sequences.                    *)
(***************************************************************************)
Min(S) == CHOOSE x \in S : \A y \in S : x <= y

Max(S) == CHOOSE x \in S : \A y \in S : x >= y

\* The characters String.prototype.trim removes (those the files here hold).
WhiteSpace == {" ", NL, "\t", "\r"}

\* The characters a regular expression's "." does not match without the s flag.
LineTerminators == {NL, "\r"}

\* pat occurs in s at position i.
IsAt(s, pat, i) ==
    /\ i >= 1
    /\ i + Len(pat) - 1 <= Len(s)
    /\ \A k \in 1..Len(pat) : s[i + k - 1] = pat[k]

Occurrences(s, pat) == {i \in 1..Len(s) : IsAt(s, pat, i)}

\* String.prototype.includes
includes(s, pat) == Occurrences(s, pat) # {}

\* String.prototype.trim
trim(s) ==
    LET keep == {i \in 1..Len(s) : s[i] \notin WhiteSpace}
    IN  IF keep = {} THEN <<>> ELSE SubSeq(s, Min(keep), Max(keep))

\* String.prototype.replace with a string pattern: the first occurrence only.
replace(s, pat, rep) ==
    IF ~includes(s, pat) THEN s
    ELSE LET i == Min(Occurrences(s, pat))
         IN  SubSeq(s, 1, i - 1) \o rep \o SubSeq(s, i + Len(pat), Len(s))

\* Array.prototype.join
RECURSIVE join(_, _)
join(strs, sep) ==
    IF Len(strs) = 0 THEN <<>>
    ELSE IF Len(strs) = 1 THEN strs[1]
    ELSE strs[1] \o sep \o join(Tail(strs), sep)

NoMatch == [matched |-> FALSE, text |-> <<>>, group1 |-> <<>>]

\* content.match(/export default \[(.*?)\] satisfies RouteConfig;/s): the leftmost
\* opening that some closing follows, and the nearest closing after it.
exportMatch(content) ==
    LET opens == Occurrences(content, ExportOpen)
        closes == Occurrences(content, ExportClose)
        after(i) == {j \in closes : j >= i + Len(ExportOpen)}
        starts == {i \in opens : after(i) # {}}
    IN  IF starts = {} THEN NoMatch
        ELSE LET i == Min(starts)
                 j == Min(after(i))
             IN  [matched |-> TRUE,
                  text |-> SubSeq(content, i, j + Len(ExportClose) - 1),
                  group1 |-> SubSeq(content, i + Len(ExportOpen), j - 1)]

\* content.match(/import.*from "@react-router\/dev\/routes";/): the leftmost
\* "import" with the module clause later on the same line, up to the last such
\* clause of that line (".*" is greedy and stops at a line terminator).
importMatch(content) ==
    LET imports == Occurrences(content, ImportWord)
        froms == Occurrences(content, FromRoutes)
        sameLine(i, j) ==
            /\ j >= i + Len(ImportWord)
            /\ \A k \in (i + Len(ImportWord))..(j - 1) : content[k] \notin LineTerminators
        reach(i) == {j \in froms : sameLine(i, j)}
        starts == {i \in imports : reach(i) # {}}
    IN  IF starts = {} THEN NoMatch
        ELSE LET i == Min(starts)
                 j == Max(reach(i))
             IN  [matched |-> TRUE,
                  text |-> SubSeq(content, i, j + Len(FromRoutes) - 1),
                  group1 |-> <<>>]

(***************************************************************************)
(* The route registry patcher.                                             *)
(***************************************************************************)
\* newRoutes.map(route => ...): the call expression of one new route.
routeEntry(route) ==
    IF route.path = Slash
    THEN IndexCallOpen \o route.file \o CallClose
    ELSE RouteCallOpen \o route.path \o ArgSep \o route.file \o CallClose

newRouteEntries(newRoutes) == [i \in 1..Len(newRoutes) |-> routeEntry(newRoutes[i])]

\* allRoutes: the trimmed existing array body, if not empty, then the new entries.
allRoutes(existingRoutesContent, newRoutes) ==
    (IF existingRoutesContent # <<>> THEN <<existingRoutesContent>> ELSE <<>>)
        \o newRouteEntries(newRoutes)

needsRouteImport(newRoutes) == \E i \in 1..Len(newRoutes) : newRoutes[i].path # Slash

\* A variant that adds the helper whenever a path-form entry is added, without
\* looking at what the statement already names.
rewriteImportUnguarded(importStatement, newRoutes) ==
    IF needsRouteImport(newRoutes)
    THEN replace(importStatement, IndexWord, RouteIndexWords)
    ELSE importStatement

\* The import statement the new file gets.
rewriteImport(importStatement, newRoutes) ==
    IF needsRouteImport(newRoutes) /\ ~includes(importStatement, RouteWord)
    THEN replace(importStatement, IndexWord, RouteIndexWords)
    ELSE importStatement

\* The template literal newContent.
newContent(importStatement, routes) ==
    importStatement \o BlankLine \o ExportOpen \o join(routes, JoinSep) \o ExportClose

ErrParseRoutes == "Could not parse existing routes configuration"

ErrNoImport == "Could not find import statement for routes"

\* A variant that, on a file it cannot parse, falls back to writing a fresh
\* registry of the new routes instead of throwing.
updateRoutesFileHeuristic(file, newRoutes) ==
    IF ~file.exists
    THEN [file |-> file, threw |-> FALSE, error |-> "", wrote |-> FALSE]
    ELSE LET exportM == exportMatch(file.content)
             importM == importMatch(file.content)
             body == IF exportM.matched THEN trim(exportM.group1) ELSE <<>>
             statement == IF importM.matched THEN importM.text
                          ELSE ImportWithRoute \o FromRoutes
         IN  [file |-> [exists |-> TRUE,
                        content |-> newContent(rewriteImport(statement, newRoutes),
                                               allRoutes(body, newRoutes))],
              threw |-> FALSE, error |-> "", wrote |-> TRUE]

\* A variant that creates the registry when there is none.
updateRoutesFileCreates(file, newRoutes) ==
    LET exportM == exportMatch(file.content)
        importM == importMatch(file.content)
    IN  IF ~file.exists
        THEN [file |-> [exists |-> TRUE,
                        content |-> newContent(ImportWithRoute \o FromRoutes,
                                               allRoutes(<<>>, newRoutes))],
              threw |-> FALSE, error |-> "", wrote |-> TRUE]
        ELSE IF ~exportM.matched
        THEN [file |-> file, threw |-> TRUE, error |-> ErrParseRoutes, wrote |-> FALSE]
        ELSE IF ~importM.matched
        THEN [file |-> file, threw |-> TRUE, error |-> ErrNoImport, wrote |-> FALSE]
        ELSE [file |-> [exists |-> TRUE,
                        content |-> newContent(
                            rewriteImport(importM.text, newRoutes),
                            allRoutes(trim(exportM.group1), newRoutes))],
              threw |-> FALSE, error |-> "", wrote |-> TRUE]

\* A variant that rewrites the import statement and the array where they
\* stand and keeps the rest of the file.
updateRoutesFileInPlace(file, newRoutes) ==
    IF ~file.exists
    THEN [file |-> file, threw |-> FALSE, error |-> "", wrote |-> FALSE]
    ELSE LET content == file.content
             exportM == exportMatch(content)
             importM == importMatch(content)
         IN  IF ~exportM.matched
             THEN [file |-> file, threw |-> TRUE, error |-> ErrParseRoutes, wrote |-> FALSE]
             ELSE IF ~importM.matched
             THEN [file |-> file, threw |-> TRUE, error |-> ErrNoImport, wrote |-> FALSE]
             ELSE [file |-> [exists |-> TRUE,
                             content |-> replace(
                                 replace(content, importM.text,
                                         rewriteImport(importM.text, newRoutes)),
                                 exportM.text,
                                 ExportOpen
                                     \o join(allRoutes(trim(exportM.group1), newRoutes), JoinSep)
                                     \o ExportClose)],
                   threw |-> FALSE, error |-> "", wrote |-> TRUE]

\* updateRoutesFile(newRoutes) on the file app/routes.ts: the file it leaves and
\* whether it returned or threw.
updateRoutesFile(file, newRoutes) ==
    IF ~file.exists
    THEN [file |-> file, threw |-> FALSE, error |-> "", wrote |-> FALSE]
    ELSE LET content == file.content
             exportM == exportMatch(content)
             importM == importMatch(content)
         IN  IF ~exportM.matched
             THEN [file |-> file, threw |-> TRUE, error |-> ErrParseRoutes, wrote |-> FALSE]
             ELSE IF ~importM.matched
             THEN [file |-> file, threw |-> TRUE, error |-> ErrNoImport, wrote |-> FALSE]
             ELSE [file |-> [exists |-> TRUE,
                             content |-> newContent(
                                 rewriteImport(importM.text, newRoutes),
                                 allRoutes(trim(exportM.group1), newRoutes))],
                   threw |-> FALSE, error |-> "", wrote |-> TRUE]

(***************************************************************************)
(* JSON values and JavaScript objects.  An object is the sequence of its   *)
(* [k, v] pairs in insertion order, keys distinct.                         *)
(***************************************************************************)
Str(s) == [t |-> "string", s |-> s, o |-> <<>>]

Obj(pairs) == [t |-> "object", s |-> "", o |-> pairs]

\* An array: its own enumerable properties are the indices.
Arr(pairs) == [t |-> "array", s |-> "", o |-> pairs]

Null == [t |-> "null", s |-> "", o |-> <<>>]

Num(s) == [t |-> "number", s |-> s, o |-> <<>>]

Undefined == [t |-> "undefined", s |-> "", o |-> <<>>]

KV(k, v) == [k |-> k, v |-> v]

Keys(pairs) == {pairs[i].k : i \in 1..Len(pairs)}

\* obj[k], undefined when obj has no such key.
Get(pairs, k) ==
    IF k \in Keys(pairs)
    THEN pairs[CHOOSE i \in 1..Len(pairs) : pairs[i].k = k].v
    ELSE Undefined

\* obj[k] = v: an existing key keeps its place, a new key goes last.
Put(pairs, k, v) ==
    IF k \in Keys(pairs)
    THEN [i \in 1..Len(pairs) |-> IF pairs[i].k = k THEN KV(k, v) ELSE pairs[i]]
    ELSE Append(pairs, KV(k, v))

\* { ...target, ...source }
RECURSIVE Spread(_, _)
Spread(target, source) ==
    IF Len(source) = 0 THEN target
    ELSE Spread(Put(target, source[1].k, source[1].v), Tail(source))

\* typeof v === 'object' (null and arrays included)
TypeofObject(v) == v.t \in {"object", "array", "null"}

\* !v
Falsy(v) == v.t \in {"null", "undefined"} \/ (v.t = "number" /\ v.s = "0")

\* The own enumerable properties { ...v } copies (the manifests here hold an
\* object, null or nothing under scripts and prisma).
OwnPairs(v) == IF v.t \in {"object", "array"} THEN v.o ELSE <<>>

\* (v || {})
OrEmpty(v) == IF Falsy(v) THEN Obj(<<>>) ELSE v

(***************************************************************************)
(* package.json.  fmt tells the user's own layout from the layout that     *)
(* JSON.stringify(data, null, 2) writes.                                   *)
(***************************************************************************)
AbsentJson == [exists |-> FALSE, parses |-> FALSE, value |-> Null, fmt |-> "none"]

UserJson(v) == [exists |-> TRUE, parses |-> TRUE, value |-> v, fmt |-> "user"]

BrokenJson == [exists |-> TRUE, parses |-> FALSE, value |-> Null, fmt |-> "user"]

ErrNotFound == "package.json not found at package.json"

ErrInvalidJson == "Invalid JSON in package.json"

ErrInvalidStructure == "Invalid package.json structure"

\* A variant that reads a file that is not JSON as an empty object.
safeParseJsonLenient(file) ==
    IF file.parses
    THEN [threw |-> FALSE, error |-> "", value |-> file.value]
    ELSE [threw |-> FALSE, error |-> "", value |-> Obj(<<>>)]

\* safeParseJson: JSON.parse, or the error "Invalid JSON in <filename>".
safeParseJson(file) ==
    IF file.parses
    THEN [threw |-> FALSE, error |-> "", value |-> file.value]
    ELSE [threw |-> TRUE, error |-> ErrInvalidJson, value |-> Undefined]

\* readJsonFile('package.json', 'package.json')
readJsonFile(file) ==
    IF ~file.exists
    THEN [threw |-> TRUE, error |-> ErrNotFound, value |-> Undefined]
    ELSE safeParseJson(file)

\* writeJsonFile: JSON.stringify(data, null, 2) over the whole file.  An array
\* spread into an object literal is written as an object.
writeJsonFile(data) ==
    [exists |-> TRUE, parses |-> TRUE, value |-> data, fmt |-> "stringify"]

\* A variant that replaces the block by the patch.
mergeBlockClobber(packageJsonData, block, patch) ==
    Obj(Put(Spread(<<>>, OwnPairs(packageJsonData)), block, Obj(Spread(<<>>, patch))))

\* A variant that spreads the patch first, so that the block's own values win.
mergeBlockKeepOld(packageJsonData, block, patch) ==
    Obj(Put(Spread(<<>>, OwnPairs(packageJsonData)), block,
            Obj(Spread(Spread(<<>>, patch),
                       OwnPairs(OrEmpty(Get(OwnPairs(packageJsonData), block)))))))

\* { ...packageJsonData, [block]: { ...(packageJsonData[block] || {}), ...patch } }
mergeBlock(packageJsonData, block, patch) ==
    Obj(Put(Spread(<<>>, OwnPairs(packageJsonData)), block,
            Obj(Spread(Spread(<<>>, OwnPairs(OrEmpty(Get(OwnPairs(packageJsonData), block)))),
                       patch))))

\* The body shared by updatePackageJsonScripts and updatePackageJsonPrisma.
updatePackageJsonBlock(file, block, patch) ==
    LET read == readJsonFile(file)
    IN  IF read.threw
        THEN [file |-> file, threw |-> TRUE, error |-> read.error, wrote |-> FALSE]
        ELSE IF Falsy(read.value) \/ ~TypeofObject(read.value)
        THEN [file |-> file, threw |-> TRUE, error |-> ErrInvalidStructure, wrote |-> FALSE]
        ELSE [file |-> writeJsonFile(mergeBlock(read.value, block, patch)),
              threw |-> FALSE, error |-> "", wrote |-> TRUE]

updatePackageJsonScripts(file, newScripts) == updatePackageJsonBlock(file, "scripts", newScripts)

updatePackageJsonPrisma(file, prismaConfig) == updatePackageJsonBlock(file, "prisma", prismaConfig)

\* The property names every object literal inherits from Object.prototype.
ObjectPrototypeNames ==
    {"constructor", "hasOwnProperty", "isPrototypeOf", "propertyIsEnumerable",
     "toLocaleString", "toString", "valueOf", "__proto__"}

\* k in obj, for an object written as a literal: own and inherited properties.
In(k, pairs) == k \in Keys(pairs) \cup ObjectPrototypeNames

\* dependenciesExist(dependencies): false when package.json cannot be read or
\* the property access throws (null).
dependenciesExist(file, dependencies) ==
    LET read == readJsonFile(file)
    IN  IF read.threw \/ read.value.t \in {"null", "undefined"} THEN FALSE
        ELSE LET data == OwnPairs(read.value)
                 allDeps == Spread(Spread(<<>>, OwnPairs(OrEmpty(Get(data, "dependencies")))),
                                   OwnPairs(OrEmpty(Get(data, "devDependencies"))))
             IN  \A dep \in dependencies : In(dep, allDeps)

(***************************************************************************)
(* The project tree.  A file's content is a sequence of blocks, <<>> for a *)
(* path that does not exist; the literal templates are named, not spelled. *)
(***************************************************************************)
Paths ==
    {"prisma", "prisma/schema.prisma", "app/lib/prisma.ts", "prisma/seed.ts",
     "app/routes/posts.tsx", "app/routes/posts.$postId.tsx", "app/routes/posts.new.tsx",
     "drizzle.config.ts", "lib/db/schema.ts", "app/lib/db.ts", "lib/db/migrate.ts",
     "lib/db/seed.ts", "app/db/schema.ts", "app/db/index.ts", "scripts/seed.ts",
     "app/routes/todos.tsx", "app/routes/todos.$todoId.tsx",
     "app/routes/todos.new.tsx",
     "app/lib/auth.server.ts", "app/lib/auth-client.ts", "app/routes/api/auth/route.ts",
     "app/routes/auth/sign-in/route.tsx", "app/routes/auth/sign-up/route.tsx",
     "app/routes/dashboard/route.tsx", ".env.example",
     "app/lib/polar.server.ts", "app/routes/checkout/route.ts",
     "app/routes/customer-portal/route.ts", "app/routes/api/polar/webhooks/route.ts",
     "app/routes/products/route.tsx", "app/routes/pricing/route.tsx"}

Absent == <<>>

Block(tag, arg) == [tag |-> tag, arg |-> arg]

Template(tag, arg) == <<Block(tag, arg)>>

UserContent == <<Block("user", "")>>

Directory == <<Block("directory", "")>>

\* fileExists that finds nothing.
fileExistsNever(tree, path) == FALSE

\* fileExists(path): fs.access succeeds.
fileExists(tree, path) == tree[path] # Absent

AbsentRoutes == [exists |-> FALSE, content |-> <<>>]

RoutesText(text) == [exists |-> TRUE, content |-> text]

(***************************************************************************)
(* The steps of an integration procedure act on the record                 *)
(*   [pkg, routes, files, threw, error, warnings]                          *)
(* and do nothing once an earlier step has thrown: nothing catches the     *)
(* exception before the procedure's caller.                                *)
(***************************************************************************)
Started(pkg, routes, tree) ==
    [pkg |-> pkg, routes |-> routes, files |-> tree, threw |-> FALSE, error |-> "",
     warnings |-> {}]

Throw(p, e) == [p EXCEPT !.threw = TRUE, !.error = e]

\* const x = await v; Continue(x): the awaited value is computed once and
\* handed to what follows.
Await(v, Continue(_)) == CHOOSE q \in {Continue(x) : x \in {v}} : TRUE

\* printWarning(...) on a skipped step.
warn(p, w) == IF p.threw THEN p ELSE [p EXCEPT !.warnings = @ \cup {w}]

\* fs.writeFile(path, content)
writeFile(p, path, content) == IF p.threw THEN p ELSE [p EXCEPT !.files[path] = content]

\* The same content written to each of the paths.
writeFiles(p, paths, content) ==
    IF p.threw THEN p
    ELSE [p EXCEPT !.files = [path \in Paths |->
                                 IF \E i \in 1..Len(paths) : paths[i] = path
                                 THEN content
                                 ELSE @[path]]]

ErrShell == "ShellError: command exited with a non-zero code"

\* npm's own edit of package.json: the installed names under dependencies.
RECURSIVE addDependencies(_, _)
addDependencies(pairs, names) ==
    IF Len(names) = 0 THEN pairs
    ELSE addDependencies(Put(pairs, names[1], Str("latest")), Tail(names))

installed(file, names) ==
    [file EXCEPT !.value = Obj(Put(OwnPairs(file.value), "dependencies",
        Obj(addDependencies(OwnPairs(OrEmpty(Get(OwnPairs(file.value), "dependencies"))),
                            names))))]

\* await $`npm install ...`: the shell template rejects on a non-zero exit, and
\* nothing around it catches.  npm needs a manifest it can read.
npmInstall(p, names, ok) ==
    IF p.threw THEN p
    ELSE IF ok /\ p.pkg.exists /\ p.pkg.parses /\ p.pkg.value.t = "object"
    THEN [p EXCEPT !.pkg = installed(p.pkg, names)]
    ELSE Throw(p, ErrShell)

\* A procedure that leaves the registry alone.
registerRoutesSkipped(p, newRoutes) == p

\* await updateRoutesFile(newRoutes) inside a procedure.
registerRoutes(p, newRoutes) ==
    IF p.threw THEN p
    ELSE Await(updateRoutesFile(p.routes, newRoutes),
               LAMBDA r : IF r.threw THEN Throw(p, r.error) ELSE [p EXCEPT !.routes = r.file])

\* await updatePackageJsonScripts(newScripts) inside a procedure.
addScripts(p, newScripts) ==
    IF p.threw THEN p
    ELSE Await(updatePackageJsonScripts(p.pkg, newScripts),
               LAMBDA r : IF r.threw THEN Throw(p, r.error) ELSE [p EXCEPT !.pkg = r.file])

\* await updatePackageJsonPrisma(prismaConfig) inside a procedure.
addPrismaConfig(p, prismaConfig) ==
    IF p.threw THEN p
    ELSE Await(updatePackageJsonPrisma(p.pkg, prismaConfig),
               LAMBDA r : IF r.threw THEN Throw(p, r.error) ELSE [p EXCEPT !.pkg = r.file])

Route(path, file) == [path |-> path, file |-> file]

(***************************************************************************)
(* integratePrisma                                                         *)
(***************************************************************************)
PrismaDeps == {"prisma", "@prisma/client", "@prisma/extension-accelerate"}

PrismaDepList == <<"prisma", "@prisma/client", "@prisma/extension-accelerate">>

PrismaProviders == {"postgresql", "mysql", "sqlite", "mongodb", "sqlserver", "cockroachdb"}

\* providerMap[databaseType] || 'postgresql'
prismaProvider(databaseType) ==
    IF databaseType \in PrismaProviders THEN databaseType ELSE "postgresql"

PrismaRouteFiles ==
    <<"app/routes/posts.tsx", "app/routes/posts.$postId.tsx", "app/routes/posts.new.tsx">>

PrismaRoutes ==
    <<Route(PathPosts, FilePosts), Route(PathPost, FilePost), Route(PathPostNew, FilePostNew)>>

PrismaScripts ==
    <<KV("db:generate", Str("prisma generate")),
      KV("db:push", Str("prisma db push")),
      KV("db:seed", Str("bun prisma/seed.ts"))>>

PrismaSeedConfig == <<KV("seed", Str("bun prisma/seed.ts"))>>

\* await $`npx prisma init`: creates prisma/ and its first schema.
prismaInit(p, ok) ==
    IF p.threw THEN p
    ELSE IF ok
    THEN [p EXCEPT !.files["prisma"] = Directory,
                   !.files["prisma/schema.prisma"] = Template("prisma-init-schema", "")]
    ELSE Throw(p, ErrShell)

\* Step 7 of integratePrisma, Step 8 of integrateDrizzle: read the manifest, and
\* merge the scripts unless every script key is already there.
scriptsStep(p, scripts, withPrismaSeed, warning) ==
    IF p.threw THEN p
    ELSE LET read == readJsonFile(p.pkg)
         IN  IF read.threw THEN Throw(p, read.error)
             ELSE IF read.value.t \in {"null", "undefined"}
             THEN Throw(p, "TypeError: cannot read properties of null")
             ELSE LET existingScripts ==
                          OwnPairs(OrEmpty(Get(OwnPairs(read.value), "scripts")))
                      scriptsExist == \A k \in Keys(scripts) : k \in Keys(existingScripts)
                  IN  IF scriptsExist THEN warn(p, warning)
                      ELSE IF withPrismaSeed
                      THEN Await(addScripts(p, scripts),
                                 LAMBDA x : addPrismaConfig(x, PrismaSeedConfig))
                      ELSE addScripts(p, scripts)

\* An integratePrisma that creates and registers the routes whatever the switch.
integratePrismaRoutesAnyway(p, includeRoutes, databaseType, sh) ==
    registerRoutes(writeFiles(p, PrismaRouteFiles, Template("prisma-route", "")),
                   PrismaRoutes)

integratePrisma(p, includeRoutes, databaseType, sh) ==
    LET prismaFolderExists == fileExists(p.files, "prisma")
        prismaSchemaExists == fileExists(p.files, "prisma/schema.prisma")
        prismaClientExists == fileExists(p.files, "app/lib/prisma.ts")
        prismaDepsExist == dependenciesExist(p.pkg, PrismaDeps)
        s1 == Await(p, LAMBDA x :
                  IF prismaDepsExist THEN warn(x, "deps")
                  ELSE npmInstall(x, PrismaDepList, sh.installOk))
        s2 == Await(s1, LAMBDA x :
                  IF prismaFolderExists THEN warn(x, "prisma folder")
                  ELSE prismaInit(x, sh.toolOk))
        s3 == Await(s2, LAMBDA x :
                  IF prismaSchemaExists THEN warn(x, "prisma/schema.prisma")
                  ELSE writeFile(x, "prisma/schema.prisma",
                                 Template("prisma-schema", prismaProvider(databaseType))))
        s4 == Await(s3, LAMBDA x :
                  IF prismaClientExists THEN warn(x, "app/lib/prisma.ts")
                  ELSE writeFile(x, "app/lib/prisma.ts", Template("prisma-client", "")))
        s5 == Await(s4, LAMBDA x :
                  IF fileExists(x.files, "prisma/seed.ts") THEN warn(x, "prisma/seed.ts")
                  ELSE writeFile(x, "prisma/seed.ts", Template("prisma-seed", "")))
        s6 == Await(s5, LAMBDA x :
                  IF ~includeRoutes THEN x
                  ELSE IF fileExists(x.files, "app/routes/posts.tsx")
                  THEN warn(x, "app/routes/posts.tsx")
                  ELSE writeFiles(x, PrismaRouteFiles, Template("prisma-route", "")))
        s6b == Await(s6, LAMBDA x :
                  IF ~includeRoutes THEN x ELSE registerRoutes(x, PrismaRoutes))
    IN  Await(s6b, LAMBDA x : scriptsStep(x, PrismaScripts, TRUE, "prisma scripts"))

(***************************************************************************)
(* integrateDrizzle                                                        *)
(***************************************************************************)
\* getDrizzleDependencies(databaseType)
getDrizzleDependencies(databaseType) ==
    IF databaseType \in {"postgresql", "postgres"}
    THEN <<"drizzle-orm", "drizzle-zod", "pg", "@types/pg">>
    ELSE IF databaseType = "mysql" THEN <<"drizzle-orm", "drizzle-zod", "mysql2">>
    ELSE IF databaseType = "better-sqlite3"
    THEN <<"drizzle-orm", "drizzle-zod", "better-sqlite3", "@types/better-sqlite3">>
    ELSE <<"drizzle-orm", "drizzle-zod", "@libsql/client">>

\* The branch every create* function of the Drizzle module takes.
drizzleVariant(databaseType) ==
    IF databaseType \in {"postgresql", "postgres"} THEN "postgres" ELSE "libsql"

DrizzleRouteFiles ==
    <<"app/routes/todos.tsx", "app/routes/todos.$todoId.tsx", "app/routes/todos.new.tsx">>

DrizzleRoutes ==
    <<Route(PathTodos, FileTodos), Route(PathTodo, FileTodo), Route(PathTodoNew, FileTodoNew)>>

DrizzleScripts ==
    <<KV("db:generate", Str("drizzle-kit generate")),
      KV("db:migrate", Str("bun lib/db/migrate.ts")),
      KV("db:push", Str("drizzle-kit push")),
      KV("db:seed", Str("bun lib/db/seed.ts")),
      KV("db:studio", Str("drizzle-kit studio"))>>

Range(seq) == {seq[i] : i \in 1..Len(seq)}

integrateDrizzle(p, includeRoutes, databaseType, sh) ==
    LET drizzleConfigExists == fileExists(p.files, "drizzle.config.ts")
        drizzleSchemaExists == fileExists(p.files, "lib/db/schema.ts")
        drizzleClientExists == fileExists(p.files, "app/lib/db.ts")
        dependencies == getDrizzleDependencies(databaseType)
        depsExist == dependenciesExist(p.pkg, Range(dependencies))
        variant == drizzleVariant(databaseType)
        s1 == Await(p, LAMBDA x :
                  IF depsExist THEN warn(x, "deps")
                  ELSE npmInstall(x, dependencies, sh.installOk))
        s1b == Await(s1, LAMBDA x :
                  IF depsExist THEN x ELSE npmInstall(x, <<"drizzle-kit">>, sh.installOk))
        s2 == Await(s1b, LAMBDA x :
                  IF drizzleConfigExists THEN warn(x, "drizzle.config.ts")
                  ELSE writeFile(x, "drizzle.config.ts", Template("drizzle-config", variant)))
        s3 == Await(s2, LAMBDA x :
                  IF drizzleSchemaExists THEN warn(x, "lib/db/schema.ts")
                  ELSE writeFile(x, "lib/db/schema.ts", Template("drizzle-schema", variant)))
        s4 == Await(s3, LAMBDA x :
                  IF drizzleClientExists THEN warn(x, "app/lib/db.ts")
                  ELSE writeFile(x, "app/lib/db.ts", Template("drizzle-client", variant)))
        s5 == Await(s4, LAMBDA x :
                  IF fileExists(x.files, "lib/db/migrate.ts") THEN warn(x, "lib/db/migrate.ts")
                  ELSE writeFile(x, "lib/db/migrate.ts", Template("drizzle-migrate", variant)))
        s6 == Await(s5, LAMBDA x :
                  IF fileExists(x.files, "lib/db/seed.ts") THEN warn(x, "lib/db/seed.ts")
                  ELSE writeFile(x, "lib/db/seed.ts", Template("drizzle-seed", variant)))
        s7 == Await(s6, LAMBDA x :
                  IF ~includeRoutes THEN x
                  ELSE IF fileExists(x.files, "app/routes/todos.tsx")
                  THEN warn(x, "app/routes/todos.tsx")
                  ELSE writeFiles(x, DrizzleRouteFiles, Template("drizzle-route", variant)))
        s7b == Await(s7, LAMBDA x :
                  IF ~includeRoutes THEN x ELSE registerRoutes(x, DrizzleRoutes))
    IN  Await(s7b, LAMBDA x : scriptsStep(x, DrizzleScripts, FALSE, "drizzle scripts"))

(***************************************************************************)
(* integrateDrizzle of lib/integrations/drizzle.mjs, the module            *)
(* lib/orchestrator.mjs imports: no step looks at what is there.           *)
(***************************************************************************)
DrizzleMjsDepList == <<"drizzle-orm", "drizzle-kit", "@libsql/client", "dotenv", "tsx">>

DrizzleMjsRouteFiles ==
    <<"app/routes/posts.tsx", "app/routes/posts.$postId.tsx", "app/routes/posts.new.tsx">>

DrizzleMjsScripts ==
    <<KV("db:generate", Str("drizzle-kit generate")),
      KV("db:push", Str("drizzle-kit push")),
      KV("db:migrate", Str("drizzle-kit migrate")),
      KV("db:seed", Str("tsx scripts/seed.ts")),
      KV("db:studio", Str("drizzle-kit studio"))>>

\* createEnvTemplate of drizzle.mjs: fs.writeFile('.env.example', envTemplate)
createDrizzleEnvTemplate(p) == writeFile(p, ".env.example", Template("env-drizzle", ""))

\* configMap[databaseType] || configMap['turso']
drizzleMjsConfig(databaseType) ==
    IF databaseType \in {"postgres", "neon", "vercel-postgres", "supabase", "mysql",
                         "planetscale", "sqlite", "turso", "d1"}
    THEN databaseType
    ELSE "turso"

integrateDrizzleMjs(p, includeRoutes, databaseType, sh) ==
    LET s1 == Await(p, LAMBDA x : npmInstall(x, DrizzleMjsDepList, sh.installOk))
        s2 == Await(s1, LAMBDA x :
                  writeFile(x, "drizzle.config.ts", Template("drizzle-mjs-config", drizzleMjsConfig(databaseType))))
        s3 == Await(s2, LAMBDA x :
                  writeFile(x, "app/db/schema.ts", Template("drizzle-mjs-schema", databaseType)))
        s4 == Await(s3, LAMBDA x :
                  writeFile(x, "app/db/index.ts",
                            Template("drizzle-mjs-connection", databaseType)))
        s5 == Await(s4, LAMBDA x :
                  writeFile(x, "scripts/seed.ts", Template("drizzle-mjs-seed", "")))
        s6 == Await(s5, LAMBDA x :
                  IF ~includeRoutes THEN x
                  ELSE writeFiles(x, DrizzleMjsRouteFiles, Template("drizzle-mjs-route", "")))
        s7 == Await(s6, LAMBDA x : addScripts(x, DrizzleMjsScripts))
    IN  Await(s7, LAMBDA x : createDrizzleEnvTemplate(x))
(***************************************************************************)
(* The Better Auth procedures.                                             *)
(***************************************************************************)
AuthDeps == {"better-auth", "@better-auth/cli"}

AuthRoutes ==
    <<Route(PathAuthApi, FileAuthApi), Route(PathSignIn, FileSignIn),
      Route(PathSignUp, FileSignUp), Route(PathDashboard, FileDashboard)>>

AuthPageFiles ==
    <<"app/routes/auth/sign-in/route.tsx", "app/routes/auth/sign-up/route.tsx",
      "app/routes/dashboard/route.tsx">>

AuthScripts ==
    <<KV("auth:generate", Str("npx @better-auth/cli@latest generate")),
      KV("auth:migrate", Str("npx @better-auth/cli@latest migrate"))>>

AuthDrizzleScripts ==
    AuthScripts \o <<KV("db:generate", Str("drizzle-kit generate")),
                     KV("db:migrate", Str("drizzle-kit migrate"))>>

\* createAuthPages: the three pages are written whether or not they exist.
createAuthPages(p) == writeFiles(p, AuthPageFiles, Template("auth-page", ""))

\* try { await $`npx @better-auth/cli@latest generate` } catch { printWarning }
generateAuthSchema(p, ok) == IF ok THEN p ELSE warn(p, "schema generation failed")

\* createAuthServerForDrizzle: providerMap[databaseType] || 'sqlite'
drizzleAuthProvider(databaseType) ==
    IF databaseType \in {"postgres", "neon", "vercel-postgres", "supabase"} THEN "pg"
    ELSE IF databaseType = "planetscale" THEN "mysql"
    ELSE "sqlite"

\* The steps the three procedures share after their own first ones: the auth
\* client, the API route, schema generation, the pages, the routes.
authCommonSteps(p, authClientExists, authRouteExists, sh) ==
    LET a == Await(p, LAMBDA x :
                 IF authClientExists THEN warn(x, "app/lib/auth-client.ts")
                 ELSE writeFile(x, "app/lib/auth-client.ts", Template("auth-client", "")))
        b == Await(a, LAMBDA x :
                 IF authRouteExists THEN warn(x, "app/routes/api/auth/route.ts")
                 ELSE writeFile(x, "app/routes/api/auth/route.ts",
                                Template("auth-api-route", "")))
        c == Await(b, LAMBDA x : generateAuthSchema(x, sh.toolOk))
        d == Await(c, LAMBDA x : createAuthPages(x))
    IN  Await(d, LAMBDA x : registerRoutes(x, AuthRoutes))

integrateBetterAuthWithPrisma(p, sh) ==
    LET authServerExists == fileExists(p.files, "app/lib/auth.server.ts")
        authClientExists == fileExists(p.files, "app/lib/auth-client.ts")
        authRouteExists == fileExists(p.files, "app/routes/api/auth/route.ts")
        authDepsExist == dependenciesExist(p.pkg, AuthDeps)
        s1 == Await(p, LAMBDA x :
                  IF authDepsExist THEN warn(x, "deps")
                  ELSE npmInstall(x, <<"better-auth", "@better-auth/cli">>, sh.installOk))
        s2 == Await(s1, LAMBDA x :
                  IF authServerExists THEN warn(x, "app/lib/auth.server.ts")
                  ELSE writeFile(x, "app/lib/auth.server.ts",
                                 Template("auth-server-prisma", "")))
        s3 == Await(s2, LAMBDA x : authCommonSteps(x, authClientExists, authRouteExists, sh))
    IN  Await(s3, LAMBDA x : addScripts(x, AuthScripts))

integrateBetterAuthWithDrizzle(p, databaseType, sh) ==
    LET authServerExists == fileExists(p.files, "app/lib/auth.server.ts")
        authClientExists == fileExists(p.files, "app/lib/auth-client.ts")
        authRouteExists == fileExists(p.files, "app/routes/api/auth/route.ts")
        drizzleDbExists == fileExists(p.files, "app/lib/db.ts")
        authDepsExist == dependenciesExist(p.pkg, AuthDeps)
        s1 == Await(p, LAMBDA x :
                  IF authDepsExist THEN warn(x, "deps")
                  ELSE npmInstall(x, <<"better-auth", "@better-auth/cli">>, sh.installOk))
        s2 == Await(s1, LAMBDA x :
                  IF drizzleDbExists THEN warn(x, "app/lib/db.ts")
                  ELSE writeFile(x, "app/lib/db.ts",
                                 Template("auth-drizzle-client", databaseType)))
        s3 == Await(s2, LAMBDA x :
                  IF authServerExists THEN warn(x, "app/lib/auth.server.ts")
                  ELSE writeFile(x, "app/lib/auth.server.ts",
                                 Template("auth-server-drizzle",
                                          drizzleAuthProvider(databaseType))))
        s4 == Await(s3, LAMBDA x : authCommonSteps(x, authClientExists, authRouteExists, sh))
    IN  Await(s4, LAMBDA x : addScripts(x, AuthDrizzleScripts))

\* createEnvTemplate of the standalone procedure: written only when absent.
createEnvTemplate(p) ==
    IF p.threw THEN p
    ELSE IF fileExists(p.files, ".env.example") THEN warn(p, ".env.example")
    ELSE writeFile(p, ".env.example", Template("env-better-auth", ""))

integrateBetterAuth(p, sh) ==
    LET authServerExists == fileExists(p.files, "app/lib/auth.server.ts")
        authClientExists == fileExists(p.files, "app/lib/auth-client.ts")
        authRouteExists == fileExists(p.files, "app/routes/api/auth/route.ts")
        authDepsExist == dependenciesExist(p.pkg, AuthDeps)
        s1 == Await(p, LAMBDA x :
                  IF authDepsExist THEN warn(x, "deps")
                  ELSE npmInstall(x, <<"better-auth", "@better-auth/cli", "better-sqlite3">>,
                                  sh.installOk))
        s1b == Await(s1, LAMBDA x :
                  IF authDepsExist THEN x
                  ELSE npmInstall(x, <<"@types/better-sqlite3">>, sh.installOk))
        s2 == Await(s1b, LAMBDA x :
                  IF authServerExists THEN warn(x, "app/lib/auth.server.ts")
                  ELSE writeFile(x, "app/lib/auth.server.ts",
                                 Template("auth-server-sqlite", "")))
        s3 == Await(s2, LAMBDA x : authCommonSteps(x, authClientExists, authRouteExists, sh))
        s4 == Await(s3, LAMBDA x : createEnvTemplate(x))
    IN  Await(s4, LAMBDA x : addScripts(x, AuthScripts))

(***************************************************************************)
(* integratePolar                                                          *)
(***************************************************************************)
PolarDeps == {"@polar-sh/remix", "zod"}

PolarRoutes ==
    <<Route(PathCheckout, FileCheckout), Route(PathPortal, FilePortal),
      Route(PathWebhooks, FileWebhooks), Route(PathProducts, FileProducts),
      Route(PathPricing, FilePricing)>>

PolarScripts ==
    <<KV("polar:check", Str("echo \"Check your Polar.sh dashboard for webhook status\""))>>

PolarEnvBlock == Block("env-polar", "")

\* createPolarEnvTemplate: append unless the file already names
\* POLAR_ACCESS_TOKEN, write the trimmed template when there is no file.
createPolarEnvTemplate(p) ==
    IF p.threw THEN p
    ELSE IF fileExists(p.files, ".env.example")
    THEN IF PolarEnvBlock \in Range(p.files[".env.example"]) THEN p
         ELSE [p EXCEPT !.files[".env.example"] = Append(@, PolarEnvBlock)]
    ELSE writeFile(p, ".env.example", <<PolarEnvBlock>>)

\* integratePolar(authType = 'better-auth')
integratePolar(p, authType, sh) ==
    LET checkoutRouteExists == fileExists(p.files, "app/routes/checkout/route.ts")
        customerPortalExists == fileExists(p.files, "app/routes/customer-portal/route.ts")
        webhookRouteExists == fileExists(p.files, "app/routes/api/polar/webhooks/route.ts")
        polarConfigExists == fileExists(p.files, "app/lib/polar.server.ts")
        polarDepsExist == dependenciesExist(p.pkg, PolarDeps)
        s1 == Await(p, LAMBDA x :
                  IF polarDepsExist THEN warn(x, "deps")
                  ELSE npmInstall(x, <<"@polar-sh/remix", "zod">>, sh.installOk))
        s2 == Await(s1, LAMBDA x :
                  IF polarConfigExists THEN warn(x, "app/lib/polar.server.ts")
                  ELSE writeFile(x, "app/lib/polar.server.ts", Template("polar-config", "")))
        s3 == Await(s2, LAMBDA x :
                  IF checkoutRouteExists THEN warn(x, "app/routes/checkout/route.ts")
                  ELSE writeFile(x, "app/routes/checkout/route.ts",
                                 Template("polar-checkout", "")))
        s4 == Await(s3, LAMBDA x :
                  IF customerPortalExists THEN warn(x, "app/routes/customer-portal/route.ts")
                  ELSE writeFile(x, "app/routes/customer-portal/route.ts",
                                 Template("polar-portal", authType)))
        s5 == Await(s4, LAMBDA x :
                  IF webhookRouteExists THEN warn(x, "app/routes/api/polar/webhooks/route.ts")
                  ELSE writeFile(x, "app/routes/api/polar/webhooks/route.ts",
                                 Template("polar-webhooks", "")))
        s6 == Await(s5, LAMBDA x :
                  writeFiles(x, <<"app/routes/products/route.tsx",
                                  "app/routes/pricing/route.tsx">>,
                             Template("polar-page", "")))
        s7 == Await(s6, LAMBDA x : registerRoutes(x, PolarRoutes))
        s8 == Await(s7, LAMBDA x : addScripts(x, PolarScripts))
    IN  Await(s8, LAMBDA x : createPolarEnvTemplate(x))
(***************************************************************************)
(* The inputs the specifications draw from.                                *)
(***************************************************************************)
ImportLine == ImportPlain \o FromRoutes

\* The registry a new React Router 7 project starts with.
RegStandard ==
    ImportLine \o BlankLine \o ExportOpen \o HomeEntry \o ExportClose \o <<NL>>

\* No entry, and an import that names no helper.
RegEmpty ==
    ImportNoIndex \o FromRoutes \o BlankLine \o ExportOpen \o ExportClose \o <<NL>>

\* One entry per line, each followed by a comma, as a formatter leaves it.
RegTrailingComma ==
    ImportLine \o BlankLine \o ExportOpen \o <<NL, " ", " ">> \o HomeEntry
        \o <<",", NL>> \o ExportClose \o <<NL>>

\* Two entries, the import already naming route.
RegWithRoute ==
    ImportWithRoute \o FromRoutes \o BlankLine \o ExportOpen \o <<NL, " ", " ">>
        \o HomeEntry \o <<",", NL, " ", " ">> \o AboutEntry \o <<NL>> \o ExportClose \o <<NL>>

\* A comment above the import.
RegCommented == CommentLine \o RegStandard

\* The array without the closing semicolon: the export pattern is not there.
RegNoSemicolon ==
    ImportLine \o BlankLine \o ExportOpen \o HomeEntry \o ExportCloseNoSemi \o <<NL>>

\* The module name in single quotes: the import pattern is not there.
RegSingleQuoted ==
    ImportSingleQuoted \o BlankLine \o ExportOpen \o HomeEntry \o ExportClose \o <<NL>>

RegistryTexts ==
    {RegStandard, RegEmpty, RegTrailingComma, RegWithRoute, RegCommented,
     RegNoSemicolon, RegSingleQuoted}

RegistryFiles == {AbsentRoutes} \cup {RoutesText(t) : t \in RegistryTexts}

RouteLists ==
    {<<>>,
     <<Route(Slash, FileHome)>>,
     <<Route(PathPosts, FilePosts)>>,
     <<Route(Slash, FileHome), Route(PathSignIn, FileSignIn)>>,
     PrismaRoutes}

LintScripts == <<KV("dev", Str("react-router dev")), KV("lint", Str("eslint ."))>>

\* {"scripts":{}}
ManifestEmpty == Obj(<<KV("scripts", Obj(<<>>))>>)

\* {"name":"app","scripts":{"dev":...,"lint":"eslint ."},"dependencies":{"react":"^19"}}
ManifestLint ==
    Obj(<<KV("name", Str("app")), KV("scripts", Obj(LintScripts)),
          KV("dependencies", Obj(<<KV("react", Str("^19"))>>))>>)

\* {"name":"app"}
ManifestNoScripts == Obj(<<KV("name", Str("app"))>>)

\* A manifest with script and prisma entries of its own under the tool's keys.
ManifestOwnPrisma ==
    Obj(<<KV("scripts", Obj(<<KV("db:push", Str("prisma db push --force")),
                              KV("lint", Str("eslint ."))>>)),
          KV("prisma", Obj(<<KV("schema", Str("db/schema.prisma")),
                             KV("seed", Str("node seed.js"))>>)),
          KV("name", Str("app"))>>)

\* {"scripts":null}
ManifestNullScripts == Obj(<<KV("scripts", Null)>>)

ObjectManifests ==
    {ManifestEmpty, ManifestLint, ManifestNoScripts, ManifestOwnPrisma, ManifestNullScripts}

\* Documents that parse, to something that is not a manifest.
OtherDocuments == {Null, Num("42"), Num("0"), Str("app"), Arr(<<KV("0", Str("app"))>>)}

ManifestFiles ==
    {AbsentJson, BrokenJson} \cup {UserJson(v) : v \in ObjectManifests \cup OtherDocuments}

ScriptPatches ==
    {<<>>, <<KV("lint", Str("biome check"))>>, PrismaScripts, AuthScripts, DrizzleScripts}

PrismaPatches == {PrismaSeedConfig, <<KV("schema", Str("prisma/schema.prisma"))>>}

EmptyTree == [path \in Paths |-> Absent]

NoShell == [installOk |-> TRUE, toolOk |-> TRUE]

NoCall ==
    [op |-> "none", arg |-> <<>>, threw |-> FALSE, error |-> "", wrote |-> FALSE,
     pkgBefore |-> AbsentJson, routesBefore |-> AbsentRoutes, filesBefore |-> EmptyTree]

NoRequest == [mode |-> "none"]

Idle == [at |-> "idle", step |-> 0]

\* How many operations one behaviour of the function-level specifications applies.
MaxOps == 2

(***************************************************************************)
(* The manifest reconciler on its own: any manifest, any sequence of       *)
(* patches.                                                                *)
(***************************************************************************)
InitManifest ==
    /\ pkgFile \in ManifestFiles
    /\ pkg0 = pkgFile
    /\ routesFile = AbsentRoutes
    /\ files = EmptyTree
    /\ lastCall = NoCall
    /\ history = <<>>
    /\ pc = Idle
    /\ request = NoRequest
    /\ shell = NoShell
    /\ calls = <<>>
    /\ exitCode = "running"

Called(op, arg, r) ==
    [op |-> op, arg |-> arg, threw |-> r.threw, error |-> r.error, wrote |-> r.wrote,
     pkgBefore |-> pkgFile, routesBefore |-> routesFile, filesBefore |-> files]

CallUpdateScripts(newScripts) ==
    LET r == updatePackageJsonScripts(pkgFile, newScripts)
    IN  /\ Len(history) < MaxOps
        /\ pkgFile' = r.file
        /\ lastCall' = Called("updatePackageJsonScripts", newScripts, r)
        /\ history' = Append(history, [block |-> "scripts", patch |-> newScripts,
                                       threw |-> r.threw])
        /\ UNCHANGED <<routesFile, files, pkg0, pc, request, shell, calls, exitCode>>

CallUpdatePrisma(prismaConfig) ==
    LET r == updatePackageJsonPrisma(pkgFile, prismaConfig)
    IN  /\ Len(history) < MaxOps
        /\ pkgFile' = r.file
        /\ lastCall' = Called("updatePackageJsonPrisma", prismaConfig, r)
        /\ history' = Append(history, [block |-> "prisma", patch |-> prismaConfig,
                                       threw |-> r.threw])
        /\ UNCHANGED <<routesFile, files, pkg0, pc, request, shell, calls, exitCode>>

NextManifest ==
    \/ \E newScripts \in ScriptPatches : CallUpdateScripts(newScripts)
    \/ \E prismaConfig \in PrismaPatches : CallUpdatePrisma(prismaConfig)

SpecManifest == InitManifest /\ [][NextManifest]_vars

(***************************************************************************)
(* The route registry patcher on its own: any registry file, any sequence  *)
(* of route lists.                                                         *)
(***************************************************************************)
InitRoutes ==
    /\ routesFile \in RegistryFiles
    /\ pkgFile = UserJson(ManifestEmpty)
    /\ pkg0 = pkgFile
    /\ files = EmptyTree
    /\ lastCall = NoCall
    /\ history = <<>>
    /\ pc = Idle
    /\ request = NoRequest
    /\ shell = NoShell
    /\ calls = <<>>
    /\ exitCode = "running"

CallUpdateRoutes(newRoutes) ==
    LET r == updateRoutesFile(routesFile, newRoutes)
    IN  /\ Len(history) < MaxOps
        /\ routesFile' = r.file
        /\ lastCall' = Called("updateRoutesFile", newRoutes, r)
        /\ history' = Append(history, [block |-> "routes", patch |-> newRoutes,
                                       threw |-> r.threw])
        /\ UNCHANGED <<pkgFile, files, pkg0, pc, request, shell, calls, exitCode>>

NextRoutes == \E newRoutes \in RouteLists : CallUpdateRoutes(newRoutes)

SpecRoutes == InitRoutes /\ [][NextRoutes]_vars

(***************************************************************************)
(* The orchestrator: run() of lib/orchestrator, called by main() of        *)
(* script.ts, which turns an uncaught exception into exit code 1.          *)
(***************************************************************************)
OrmChoices == {"prisma", "drizzle"}

DrizzleTypes ==
    {"postgres", "neon", "vercel-postgres", "supabase", "planetscale", "turso", "d1"}

DatabaseTypeChoices == PrismaProviders \cup DrizzleTypes

AuthChoices == {"better-auth"}

ServiceChoices == {"polar"}

\* The object yargs returns; "undefined" is an option that was not given.
Argv(orm, databaseType, auth, routes, services) ==
    [orm |-> orm, databaseType |-> databaseType, auth |-> auth, routes |-> routes,
     services |-> services]

\* The answers inquirer returns.
Answers(database, databaseType, auth, includeRoutes, services) ==
    [database |-> database, databaseType |-> databaseType, auth |-> auth,
     includeRoutes |-> includeRoutes, services |-> services]

NoArgv == Argv("undefined", "undefined", "undefined", TRUE, <<>>)

NoAnswers == Answers("none", "undefined", "none", TRUE, <<>>)

\* parseCliArguments: yargs ends the process with code 1 when an option holds
\* a value outside its choices.
parseCliArguments(argv) ==
    /\ argv.orm \in OrmChoices \cup {"undefined"}
    /\ argv.databaseType \in DatabaseTypeChoices \cup {"undefined"}
    /\ argv.auth \in AuthChoices \cup {"undefined"}
    /\ \A i \in 1..Len(argv.services) : argv.services[i] \in ServiceChoices

\* validateCliArgs: CliArgsSchema.parse succeeds.
validateCliArgs(argv) ==
    /\ argv.orm \in {"prisma", "drizzle", "undefined"}
    /\ argv.auth \in {"better-auth", "undefined"}
    /\ argv.databaseType \in DatabaseTypeChoices \cup {"undefined"}
    /\ \A i \in 1..Len(argv.services) : argv.services[i] \in {"polar"}

\* A validator that lets every answer through.
validateInquirerAnswersLenient(answers) == TRUE

\* validateInquirerAnswers: InquirerAnswersSchema.parse succeeds.
validateInquirerAnswers(answers) ==
    /\ answers.database \in {"prisma", "drizzle", "none"}
    /\ answers.databaseType \in DatabaseTypeChoices \cup {"undefined"}
    /\ answers.auth \in {"better-auth", "none"}
    /\ answers.includeRoutes \in BOOLEAN
    /\ \A i \in 1..Len(answers.services) : answers.services[i] \in {"polar"}

\* const hasCliArgs = validatedArgs.orm || validatedArgs.auth
hasCliArgs(argv) == argv.orm # "undefined" \/ argv.auth # "undefined"

\* The statements of executeCliMode and of executeInteractiveMode, in the
\* order they are written.
cliPhasesAuthFirst == <<"auth", "database", "services">>

cliPhases == <<"database", "auth", "services">>

interactivePhases == <<"database", "auth", "services">>

\* x || fallback on an option that may be undefined.
orDefault(x, fallback) == IF x = "undefined" THEN fallback ELSE x

\* The integration procedure a phase calls, "none" when it calls none.
\* orm, auth and services are args.* in CLI mode and answers.* in interactive
\* mode ('none' is the interactive mode's "not selected").
databaseProc(orm) ==
    IF orm = "prisma" THEN "integratePrisma"
    ELSE IF orm = "drizzle" THEN "integrateDrizzle"
    ELSE "none"

\* An auth dispatch without the standalone branch.
authProcOrmOnly(orm, auth) ==
    IF auth # "better-auth" THEN "none"
    ELSE IF orm = "prisma" THEN "integrateBetterAuthWithPrisma"
    ELSE IF orm = "drizzle" THEN "integrateBetterAuthWithDrizzle"
    ELSE "none"

authProc(orm, auth) ==
    IF auth # "better-auth" THEN "none"
    ELSE IF orm = "prisma" THEN "integrateBetterAuthWithPrisma"
    ELSE IF orm = "drizzle" THEN "integrateBetterAuthWithDrizzle"
    ELSE "integrateBetterAuth"

servicesProc(services) == IF "polar" \in Range(services) THEN "integratePolar" ELSE "none"

\* The selection a mode works from: what to integrate and with which arguments.
cliSelection(argv) ==
    [orm |-> argv.orm, auth |-> argv.auth, services |-> argv.services,
     includeRoutes |-> argv.routes # FALSE,
     prismaDbType |-> orDefault(argv.databaseType, "postgresql"),
     drizzleDbType |-> orDefault(argv.databaseType, "turso"),
     authType |-> orDefault(argv.auth, "better-auth")]

interactiveSelection(answers) ==
    [orm |-> answers.database, auth |-> answers.auth, services |-> answers.services,
     includeRoutes |-> answers.includeRoutes,
     prismaDbType |-> orDefault(answers.databaseType, "postgresql"),
     drizzleDbType |-> orDefault(answers.databaseType, "turso"),
     authType |-> answers.auth]

\* The call a phase makes: the procedure, the arguments it is given, and the
\* project as the procedure leaves it.
phaseCall(phase, sel, p, sh) ==
    LET proc == IF phase = "database" THEN databaseProc(sel.orm)
                ELSE IF phase = "auth" THEN authProc(sel.orm, sel.auth)
                ELSE servicesProc(sel.services)
    IN  IF proc = "integratePrisma"
        THEN [proc |-> proc, args |-> <<sel.includeRoutes, sel.prismaDbType>>,
              result |-> integratePrisma(p, sel.includeRoutes, sel.prismaDbType, sh)]
        ELSE IF proc = "integrateDrizzle"
        THEN [proc |-> proc, args |-> <<sel.includeRoutes, sel.drizzleDbType>>,
              result |-> integrateDrizzle(p, sel.includeRoutes, sel.drizzleDbType, sh)]
        ELSE IF proc = "integrateBetterAuthWithPrisma"
        THEN [proc |-> proc, args |-> <<>>, result |-> integrateBetterAuthWithPrisma(p, sh)]
        ELSE IF proc = "integrateBetterAuthWithDrizzle"
        THEN [proc |-> proc, args |-> <<>>,
              result |-> integrateBetterAuthWithDrizzle(p, "turso", sh)]
        ELSE IF proc = "integrateBetterAuth"
        THEN [proc |-> proc, args |-> <<>>, result |-> integrateBetterAuth(p, sh)]
        ELSE IF proc = "integratePolar"
        THEN [proc |-> proc, args |-> <<sel.authType>>,
              result |-> integratePolar(p, sel.authType, sh)]
        ELSE [proc |-> "none", args |-> <<>>, result |-> p]
(***************************************************************************)
(* One run of the tool, from main() to the process's exit.                 *)
(***************************************************************************)
\* A manifest in which the Prisma and the Better Auth packages are installed.
ManifestInstalled ==
    Obj(<<KV("name", Str("app")),
          KV("scripts", Obj(LintScripts)),
          KV("dependencies",
             Obj(addDependencies(<<>>, PrismaDepList \o <<"better-auth", "@better-auth/cli">>)))>>)

RunManifests ==
    {AbsentJson, BrokenJson, UserJson(ManifestLint), UserJson(ManifestInstalled)}

RunRegistries ==
    {AbsentRoutes, RoutesText(RegStandard), RoutesText(RegTrailingComma),
     RoutesText(RegSingleQuoted)}

\* A project in which the user has a Prisma client, an auth server and an
\* .env.example of their own.
ExistingTree ==
    [path \in Paths |->
        IF path \in {"app/lib/prisma.ts", "app/lib/auth.server.ts", ".env.example"}
        THEN UserContent
        ELSE Absent]

RunTrees == {EmptyTree, ExistingTree}

\* installOk: npm install exits with 0.  toolOk: npx prisma init and the
\* Better Auth CLI exit with 0.
Shells ==
    {[installOk |-> TRUE, toolOk |-> TRUE],
     [installOk |-> FALSE, toolOk |-> TRUE],
     [installOk |-> TRUE, toolOk |-> FALSE]}

CommandLines ==
    {NoArgv,
     Argv("undefined", "undefined", "undefined", FALSE, <<>>),
     Argv("undefined", "undefined", "undefined", TRUE, <<"polar">>),
     Argv("undefined", "sqlite", "undefined", TRUE, <<>>),
     Argv("prisma", "undefined", "undefined", TRUE, <<>>),
     Argv("prisma", "sqlite", "undefined", FALSE, <<>>),
     Argv("prisma", "turso", "better-auth", TRUE, <<>>),
     Argv("prisma", "undefined", "better-auth", TRUE, <<"polar">>),
     Argv("prisma", "undefined", "undefined", TRUE, <<"polar">>),
     Argv("drizzle", "undefined", "undefined", TRUE, <<>>),
     Argv("drizzle", "postgres", "better-auth", TRUE, <<"polar">>),
     Argv("drizzle", "postgresql", "better-auth", FALSE, <<>>),
     Argv("undefined", "undefined", "better-auth", TRUE, <<>>),
     Argv("undefined", "undefined", "better-auth", TRUE, <<"polar">>),
     Argv("mongoose", "undefined", "undefined", TRUE, <<>>),
     Argv("prisma", "oracle", "undefined", TRUE, <<>>),
     Argv("prisma", "undefined", "clerk", TRUE, <<>>),
     Argv("prisma", "undefined", "undefined", TRUE, <<"railway">>),
     Argv("undefined", "undefined", "undefined", TRUE, <<"railway">>)}

\* What the prompts let the user answer: the type list is that of the chosen
\* ORM and is not asked without a database; the services are a checkbox of
\* polar and railway.
AnswerSets ==
    {NoAnswers,
     Answers("none", "undefined", "none", FALSE, <<"polar">>),
     Answers("none", "undefined", "better-auth", TRUE, <<>>),
     Answers("none", "undefined", "better-auth", TRUE, <<"polar">>),
     Answers("prisma", "postgresql", "none", TRUE, <<>>),
     Answers("prisma", "sqlite", "better-auth", FALSE, <<>>),
     Answers("prisma", "mysql", "better-auth", TRUE, <<"polar">>),
     Answers("prisma", "postgresql", "none", TRUE, <<"polar">>),
     Answers("drizzle", "turso", "none", TRUE, <<>>),
     Answers("drizzle", "postgres", "better-auth", TRUE, <<"polar">>),
     Answers("drizzle", "sqlite", "better-auth", FALSE, <<>>),
     Answers("prisma", "postgresql", "none", TRUE, <<"railway">>),
     Answers("none", "undefined", "none", TRUE, <<"polar", "railway">>)}

Init ==
    /\ pkgFile \in RunManifests
    /\ pkg0 = pkgFile
    /\ routesFile \in RunRegistries
    /\ files \in RunTrees
    /\ shell \in Shells
    /\ lastCall = NoCall
    /\ history = <<>>
    /\ pc = [at |-> "start", step |-> 0]
    /\ request = [mode |-> "none", argv |-> NoArgv, answers |-> NoAnswers]
    /\ calls = <<>>
    /\ exitCode = "running"

\* An exit that reports success whatever happened.
ExitWithZero(code) ==
    /\ pc' = [at |-> "exited", step |-> 0]
    /\ exitCode' = "0"

\* process.exit(code), or main() returning.
Exit(code) ==
    /\ pc' = [at |-> "exited", step |-> 0]
    /\ exitCode' = code

\* A start that does not look for package.json.
ValidateEnvironmentUnchecked ==
    /\ pc.at = "start"
    /\ pc' = [at |-> "parse", step |-> 0]
    /\ UNCHANGED <<exitCode, pkgFile, routesFile, files, lastCall, history, pkg0, request, shell, calls>>

\* validateEnvironment: fs.readFile('package.json') or process.exit(1).
ValidateEnvironment ==
    /\ pc.at = "start"
    /\ IF pkgFile.exists
       THEN pc' = [at |-> "parse", step |-> 0] /\ UNCHANGED exitCode
       ELSE Exit("1")
    /\ UNCHANGED <<pkgFile, routesFile, files, lastCall, history, pkg0, request, shell, calls>>

\* run(), lines 30-40: parse, validate, choose the mode.
ParseArguments(argv) ==
    /\ pc.at = "parse"
    /\ IF ~parseCliArguments(argv) \/ ~validateCliArgs(argv)
       THEN /\ request' = [request EXCEPT !.argv = argv]
            /\ Exit("1")
       ELSE IF hasCliArgs(argv)
       THEN /\ request' = [request EXCEPT !.argv = argv, !.mode = "cli"]
            /\ pc' = [at |-> "cli", step |-> 1]
            /\ UNCHANGED exitCode
       ELSE /\ request' = [request EXCEPT !.argv = argv, !.mode = "interactive"]
            /\ pc' = [at |-> "prompt", step |-> 0]
            /\ UNCHANGED exitCode
    /\ UNCHANGED <<pkgFile, routesFile, files, lastCall, history, pkg0, shell, calls>>

\* executeInteractiveMode, lines 110-111: prompt, validate the answers.
PromptUserPreferences(answers) ==
    /\ pc.at = "prompt"
    /\ request' = [request EXCEPT !.answers = answers]
    /\ IF validateInquirerAnswers(answers)
       THEN pc' = [at |-> "interactive", step |-> 1] /\ UNCHANGED exitCode
       ELSE Exit("1")
    /\ UNCHANGED <<pkgFile, routesFile, files, lastCall, history, pkg0, shell, calls>>

\* A phase that, when its procedure throws, puts the project back as the run
\* found it: no file, the manifest of the start.
RunPhaseRollingBack(mode, phases, phase, sel) ==
    /\ pc.at = mode
    /\ pc.step \in 1..Len(phases)
    /\ phases[pc.step] = phase
    /\ \E c \in {phaseCall(phase, sel, Started(pkgFile, routesFile, files), shell)} :
        LET r == c.result IN
        /\ pkgFile' = (IF r.threw THEN pkg0 ELSE r.pkg)
        /\ routesFile' = r.routes
        /\ files' = (IF r.threw THEN EmptyTree ELSE r.files)
        /\ IF c.proc = "none"
           THEN UNCHANGED <<calls, lastCall>>
           ELSE /\ calls' = Append(calls, [proc |-> c.proc, args |-> c.args,
                                           threw |-> r.threw, error |-> r.error,
                                           warnings |-> r.warnings])
                /\ lastCall' = [op |-> c.proc, arg |-> c.args, threw |-> r.threw,
                                error |-> r.error,
                                wrote |-> <<r.pkg, r.routes, r.files>>
                                              # <<pkgFile, routesFile, files>>,
                                pkgBefore |-> pkgFile, routesBefore |-> routesFile,
                                filesBefore |-> files]
        /\ IF r.threw THEN Exit("1")
           ELSE IF pc.step = Len(phases) THEN Exit("0")
           ELSE pc' = [pc EXCEPT !.step = @ + 1] /\ UNCHANGED exitCode
    /\ UNCHANGED <<history, pkg0, request, shell>>

\* One phase of a mode: the procedure it selects is awaited; an exception
\* leaves the mode and run(), and main() exits with 1; after the last phase
\* main() returns.
RunPhase(mode, phases, phase, sel) ==
    /\ pc.at = mode
    /\ pc.step \in 1..Len(phases)
    /\ phases[pc.step] = phase
    /\ \E c \in {phaseCall(phase, sel, Started(pkgFile, routesFile, files), shell)} :
        LET r == c.result IN
        /\ pkgFile' = r.pkg
        /\ routesFile' = r.routes
        /\ files' = r.files
        /\ IF c.proc = "none"
           THEN UNCHANGED <<calls, lastCall>>
           ELSE /\ calls' = Append(calls, [proc |-> c.proc, args |-> c.args,
                                           threw |-> r.threw, error |-> r.error,
                                           warnings |-> r.warnings])
                /\ lastCall' = [op |-> c.proc, arg |-> c.args, threw |-> r.threw,
                                error |-> r.error,
                                wrote |-> <<r.pkg, r.routes, r.files>>
                                              # <<pkgFile, routesFile, files>>,
                                pkgBefore |-> pkgFile, routesBefore |-> routesFile,
                                filesBefore |-> files]
        /\ IF r.threw THEN Exit("1")
           ELSE IF pc.step = Len(phases) THEN Exit("0")
           ELSE pc' = [pc EXCEPT !.step = @ + 1] /\ UNCHANGED exitCode
    /\ UNCHANGED <<history, pkg0, request, shell>>

CliDatabase == RunPhase("cli", cliPhases, "database", cliSelection(request.argv))

CliAuth == RunPhase("cli", cliPhases, "auth", cliSelection(request.argv))

CliServices == RunPhase("cli", cliPhases, "services", cliSelection(request.argv))

InteractiveDatabase ==
    RunPhase("interactive", interactivePhases, "database", interactiveSelection(request.answers))

InteractiveAuth ==
    RunPhase("interactive", interactivePhases, "auth", interactiveSelection(request.answers))

InteractiveServices ==
    RunPhase("interactive", interactivePhases, "services", interactiveSelection(request.answers))

Next ==
    \/ ValidateEnvironment
    \/ \E argv \in CommandLines : ParseArguments(argv)
    \/ \E answers \in AnswerSets : PromptUserPreferences(answers)
    \/ CliDatabase
    \/ CliAuth
    \/ CliServices
    \/ InteractiveDatabase
    \/ InteractiveAuth
    \/ InteractiveServices

Spec == Init /\ [][Next]_vars

(***************************************************************************)
(* The integration procedures on their own: any project, any sequence of   *)
(* procedures, each run to its end.                                        *)
(***************************************************************************)
\* How many procedures one behaviour of the procedure-level specification runs.
MaxRuns == 2

\* A project in which the user has, besides the files of ExistingTree, a
\* sign-in page, a new-post page and a pricing page of their own.
UserPagesTree ==
    [path \in Paths |->
        IF path \in {"app/routes/auth/sign-in/route.tsx", "app/routes/posts.new.tsx",
                     "app/routes/pricing/route.tsx"}
        THEN UserContent
        ELSE ExistingTree[path]]

ProcedureManifests == {UserJson(ManifestEmpty)}

ProcedureRegistries == {AbsentRoutes, RoutesText(RegStandard)}

ProcedureTrees == {EmptyTree, UserPagesTree}

ProcedureShells ==
    {[installOk |-> TRUE, toolOk |-> TRUE], [installOk |-> FALSE, toolOk |-> TRUE]}

InitProcedures ==
    /\ pkgFile \in ProcedureManifests
    /\ pkg0 = pkgFile
    /\ routesFile \in ProcedureRegistries
    /\ files \in ProcedureTrees
    /\ shell \in ProcedureShells
    /\ lastCall = NoCall
    /\ history = <<>>
    /\ pc = Idle
    /\ request = NoRequest
    /\ calls = <<>>
    /\ exitCode = "running"

\* await proc(...args): the project is as the procedure leaves it, whether it
\* returned or threw.
CallProcedure(proc, args, r) ==
    /\ Len(calls) < MaxRuns
    /\ pkgFile' = r.pkg
    /\ routesFile' = r.routes
    /\ files' = r.files
    /\ calls' = Append(calls, [proc |-> proc, args |-> args, threw |-> r.threw,
                               error |-> r.error, warnings |-> r.warnings])
    /\ lastCall' = [op |-> proc, arg |-> args, threw |-> r.threw, error |-> r.error,
                    wrote |-> <<r.pkg, r.routes, r.files>> # <<pkgFile, routesFile, files>>,
                    pkgBefore |-> pkgFile, routesBefore |-> routesFile,
                    filesBefore |-> files]
    /\ UNCHANGED <<history, pkg0, pc, request, shell, exitCode>>

CallIntegratePrisma(includeRoutes) ==
    \E r \in {integratePrisma(Started(pkgFile, routesFile, files), includeRoutes,
                              "postgresql", shell)} :
        CallProcedure("integratePrisma", <<includeRoutes, "postgresql">>, r)

CallIntegrateDrizzle ==
    \E r \in {integrateDrizzle(Started(pkgFile, routesFile, files), TRUE, "turso", shell)} :
        CallProcedure("integrateDrizzle", <<TRUE, "turso">>, r)

CallIntegrateDrizzleMjs ==
    \E r \in {integrateDrizzleMjs(Started(pkgFile, routesFile, files), TRUE, "turso", shell)} :
        CallProcedure("integrateDrizzle.mjs", <<TRUE, "turso">>, r)

CallIntegrateBetterAuthWithPrisma ==
    \E r \in {integrateBetterAuthWithPrisma(Started(pkgFile, routesFile, files), shell)} :
        CallProcedure("integrateBetterAuthWithPrisma", <<>>, r)

CallIntegrateBetterAuthWithDrizzle ==
    \E r \in {integrateBetterAuthWithDrizzle(Started(pkgFile, routesFile, files),
                                             "turso", shell)} :
        CallProcedure("integrateBetterAuthWithDrizzle", <<>>, r)

CallIntegrateBetterAuth ==
    \E r \in {integrateBetterAuth(Started(pkgFile, routesFile, files), shell)} :
        CallProcedure("integrateBetterAuth", <<>>, r)

CallIntegratePolar ==
    \E r \in {integratePolar(Started(pkgFile, routesFile, files), "better-auth", shell)} :
        CallProcedure("integratePolar", <<"better-auth">>, r)

NextProcedures ==
    \/ \E includeRoutes \in BOOLEAN : CallIntegratePrisma(includeRoutes)
    \/ CallIntegrateDrizzle
    \/ CallIntegrateBetterAuthWithPrisma
    \/ CallIntegrateBetterAuthWithDrizzle

SpecProcedures == InitProcedures /\ [][NextProcedures]_vars

\* The procedures that write the environment template, run in any order.
NextEnvTemplate ==
    \/ CallIntegrateDrizzleMjs
    \/ CallIntegrateBetterAuthWithDrizzle
    \/ CallIntegrateBetterAuth
    \/ CallIntegratePolar

SpecEnvTemplate == InitProcedures /\ [][NextEnvTemplate]_vars
(***************************************************************************)
(* dependenciesExist on its own: any manifest, any list of names.          *)
(***************************************************************************)
\* A manifest with a runtime and a development dependency mapping.
ManifestDev ==
    Obj(<<KV("name", Str("app")),
          KV("dependencies", Obj(<<KV("react", Str("^19.0.0"))>>)),
          KV("devDependencies",
             Obj(<<KV("prisma", Str("^6.0.0")), KV("typescript", Str("^5.0.0"))>>))>>)

DependencyManifests ==
    {AbsentJson, BrokenJson, UserJson(ManifestEmpty), UserJson(ManifestInstalled),
     UserJson(ManifestDev), UserJson(Null)}

DependencyLists ==
    {{}, {"react"}, {"react", "typescript"}, {"prisma", "@prisma/client"}, {"zod"},
     {"react", "constructor"}, PrismaDeps}

InitDependencies ==
    /\ pkgFile \in DependencyManifests
    /\ pkg0 = pkgFile
    /\ routesFile = AbsentRoutes
    /\ files = EmptyTree
    /\ lastCall = NoCall
    /\ history = <<>>
    /\ pc = Idle
    /\ request = NoRequest
    /\ shell = NoShell
    /\ calls = <<>>
    /\ exitCode = "running"

\* await dependenciesExist(dependencies): nothing is written, whatever it returns.
CallDependenciesExist(dependencies) ==
    /\ Len(history) < MaxOps
    /\ \E result \in {dependenciesExist(pkgFile, dependencies)} :
        /\ lastCall' = [op |-> "dependenciesExist", arg |-> dependencies,
                        threw |-> FALSE, error |-> "", wrote |-> FALSE,
                        pkgBefore |-> pkgFile, routesBefore |-> routesFile,
                        filesBefore |-> files, result |-> result]
        /\ history' = Append(history, [block |-> "dependencies", patch |-> dependencies,
                                       threw |-> FALSE])
    /\ UNCHANGED <<pkgFile, routesFile, files, pkg0, pc, request, shell, calls, exitCode>>

NextDependencies == \E dependencies \in DependencyLists : CallDependenciesExist(dependencies)

SpecDependencies == InitDependencies /\ [][NextDependencies]_vars

(***************************************************************************)
(* Reading a registry file back, as the JavaScript parser reads it.        *)
(***************************************************************************)
\* Position i of s is outside every string literal and every call's parentheses.
InString(s, i) == Cardinality({j \in 1..(i - 1) : s[j] = "\""}) % 2 = 1

TopLevel(s, i) ==
    /\ ~InString(s, i)
    /\ Cardinality({j \in 1..(i - 1) : s[j] = "(" /\ ~InString(s, j)})
           = Cardinality({j \in 1..(i - 1) : s[j] = ")" /\ ~InString(s, j)})

\* The pieces of an array literal's body between its top-level commas: commas
\* inside a call's parentheses or inside a string literal do not separate.
SplitTopLevel(s) ==
    LET commas == {i \in 1..Len(s) : s[i] = "," /\ TopLevel(s, i)}
        nth(n) == CHOOSE i \in commas : Cardinality({j \in commas : j < i}) = n - 1
        from(n) == IF n = 1 THEN 1 ELSE nth(n - 1) + 1
        to(n) == IF n = Cardinality(commas) + 1 THEN Len(s) ELSE nth(n) - 1
    IN  [n \in 1..(Cardinality(commas) + 1) |-> SubSeq(s, from(n), to(n))]

\* The elements of the array literal [body]: one per piece, an empty piece
\* being a hole that still counts, except that an empty last piece (an empty
\* body, or a trailing comma) is no element.
ArrayElements(body) ==
    LET pieces == SplitTopLevel(body)
        trimmed == [i \in 1..Len(pieces) |-> trim(pieces[i])]
    IN  IF trimmed[Len(trimmed)] = <<>>
        THEN SubSeq(trimmed, 1, Len(trimmed) - 1)
        ELSE trimmed

\* The array body of a registry text that holds the export pattern.
RegistryEntries(text) == ArrayElements(exportMatch(text).group1)

\* The names between the braces of an import statement, in order.
ImportedSymbolList(statement) ==
    LET open == Occurrences(statement, <<"{">>)
        close == Occurrences(statement, <<"}">>)
    IN  IF open = {} \/ close = {} THEN <<>>
        ELSE ArrayElements(SubSeq(statement, Min(open) + 1, Min(close) - 1))

ImportedSymbols(statement) == Range(ImportedSymbolList(statement))

\* The import statement of a registry text.
ImportOf(text) == importMatch(text).text

NamesRouteHelper(text) == RouteWord \in ImportedSymbols(ImportOf(text))

\* The text holds "export default [" with "] satisfies RouteConfig;" after it.
ContainsExportPattern(text) ==
    \E i \in Occurrences(text, ExportOpen) :
        \E j \in Occurrences(text, ExportClose) : j >= i + Len(ExportOpen)

\* The text holds a line with "import" and, later on it, the module clause.
ContainsImportLine(text) ==
    \E i \in Occurrences(text, ImportWord) :
        \E j \in Occurrences(text, FromRoutes) :
            /\ j >= i + Len(ImportWord)
            /\ \A k \in i..j : text[k] \notin LineTerminators

\* The scripts (or prisma) mapping of a manifest value, empty when it has none.
BlockPairs(v, block) ==
    LET b == Get(OwnPairs(v), block)
    IN  IF b.t = "object" THEN b.o ELSE <<>>

ReadableObject(file) == file.exists /\ file.parses /\ file.value.t = "object"

(***************************************************************************)
(* The manifest reconciler's claims (SpecManifest).                        *)
(***************************************************************************)
\* After a merge of patch P into block `block` of an object manifest M: the
\* block holds P's value under every key of P, M's value under every other
\* key it had, no further key, and every other top-level key of M is as it was.
MergedAsUnion(op, block) ==
    (lastCall.op = op /\ ReadableObject(lastCall.pkgBefore)) =>
        LET M == lastCall.pkgBefore.value
            P == lastCall.arg
            W == pkgFile.value
            old == BlockPairs(M, block)
            new == BlockPairs(W, block)
        IN  /\ ~lastCall.threw
            /\ ReadableObject(pkgFile)
            /\ Get(OwnPairs(W), block).t = "object"
            /\ \A k \in Keys(P) : Get(new, k) = Get(P, k)
            /\ \A k \in Keys(old) \ Keys(P) : Get(new, k) = Get(old, k)
            /\ Keys(new) = Keys(old) \cup Keys(P)
            /\ \A k \in Keys(OwnPairs(M)) \ {block} : Get(OwnPairs(W), k) = Get(OwnPairs(M), k)
            /\ Keys(OwnPairs(W)) = Keys(OwnPairs(M)) \cup {block}

\* C1: the manifest merge is a non-destructive shallow union, for the scripts
\* block (updatePackageJsonScripts) and for the prisma block
\* (updatePackageJsonPrisma): patch keys take the patch's value, every other
\* key of the block and every other top-level key keeps its value.
C1_MergeIsShallowUnion ==
    /\ MergedAsUnion("updatePackageJsonScripts", "scripts")
    /\ MergedAsUnion("updatePackageJsonPrisma", "prisma")

\* C1's case: the Prisma scripts merged into a manifest that has a db:push and a
\* lint script of its own; db:push is overwritten, lint survives.
C1_Witness ==
    /\ lastCall.op = "updatePackageJsonScripts"
    /\ lastCall.pkgBefore = UserJson(ManifestOwnPrisma)
    /\ lastCall.arg = PrismaScripts
    /\ Get(BlockPairs(pkgFile.value, "scripts"), "db:push") = Str("prisma db push")
    /\ Get(BlockPairs(pkgFile.value, "scripts"), "lint") = Str("eslint .")

\* C2: after any sequence of script patches on an object manifest the scripts
\* mapping holds, for every key, the value of the last patch that names it,
\* else the manifest's own value, and no other key; and a patch applied a
\* second time in a row leaves the file exactly as the first time left it.
C2_LastWriterWins ==
    (ReadableObject(pkg0) /\ history # <<>>
        /\ \A i \in 1..Len(history) : history[i].block = "scripts") =>
        LET base == BlockPairs(pkg0.value, "scripts")
            now == BlockPairs(pkgFile.value, "scripts")
            n == Len(history)
            naming(k) == {i \in 1..n : k \in Keys(history[i].patch)}
            allKeys == Keys(base) \cup UNION {Keys(history[i].patch) : i \in 1..n}
        IN  /\ Keys(now) = allKeys
            /\ \A k \in allKeys :
                   Get(now, k) = IF naming(k) # {}
                                 THEN Get(history[Max(naming(k))].patch, k)
                                 ELSE Get(base, k)
            /\ (n >= 2 /\ history[n].patch = history[n - 1].patch)
                   => pkgFile = lastCall.pkgBefore

\* C2's case: the Prisma scripts, then the Drizzle scripts, which name
\* db:generate, db:push and db:seed again with other values.
C2_Witness ==
    /\ pkg0 = UserJson(ManifestOwnPrisma)
    /\ Len(history) = 2
    /\ history[1].patch = PrismaScripts
    /\ history[2].patch = DrizzleScripts
    /\ Get(BlockPairs(pkgFile.value, "scripts"), "db:push") = Str("drizzle-kit push")

PatchedMatchingFile ==
    /\ lastCall.op = "updateRoutesFile"
    /\ lastCall.routesBefore.exists
    /\ ContainsExportPattern(lastCall.routesBefore.content)
    /\ ContainsImportLine(lastCall.routesBefore.content)

\* C3: patching a matching registry of N entries with M new routes writes an
\* array of exactly N+M entries, the N old ones in their order and then the M
\* new ones in the order passed, a trailing comma in the old body included.
C3_AppendsInOrder ==
    PatchedMatchingFile =>
        /\ ~lastCall.threw
        /\ RegistryEntries(routesFile.content)
               = RegistryEntries(lastCall.routesBefore.content)
                     \o newRouteEntries(lastCall.arg)

\* C4: when a path-form entry is added to a registry whose import does not
\* name the route helper, the written file's import names it.
C4_RouteHelperImported ==
    (/\ PatchedMatchingFile
     /\ lastCall.wrote
     /\ needsRouteImport(lastCall.arg)
     /\ ~NamesRouteHelper(lastCall.routesBefore.content)) =>
        NamesRouteHelper(routesFile.content)

\* C5: however often the registry is patched, its import names the route
\* helper at most once, and a patch of a file whose import already names it
\* leaves the import statement's text as it was.
C5_RouteHelperNotDuplicated ==
    /\ (routesFile.exists /\ ContainsImportLine(routesFile.content)) =>
           Cardinality({i \in 1..Len(ImportedSymbolList(ImportOf(routesFile.content))) :
                          ImportedSymbolList(ImportOf(routesFile.content))[i] = RouteWord}) <= 1
    /\ (PatchedMatchingFile /\ lastCall.wrote
            /\ NamesRouteHelper(lastCall.routesBefore.content)) =>
           ImportOf(routesFile.content) = ImportOf(lastCall.routesBefore.content)

\* C5's case: a registry whose import names route, patched twice in a row with
\* path-form entries.
C5_Witness ==
    /\ Len(history) = 2
    /\ ~history[1].threw /\ needsRouteImport(history[1].patch)
    /\ lastCall.wrote /\ needsRouteImport(lastCall.arg)
    /\ NamesRouteHelper(lastCall.routesBefore.content)
    /\ NamesRouteHelper(routesFile.content)

\* C6: a registry file without the export pattern, or without the import line,
\* makes updateRoutesFile throw, and the file is left exactly as it was.
C6_UnparsableRegistryUntouched ==
    (/\ lastCall.op = "updateRoutesFile"
     /\ lastCall.routesBefore.exists
     /\ \/ ~ContainsExportPattern(lastCall.routesBefore.content)
        \/ ~ContainsImportLine(lastCall.routesBefore.content)) =>
        /\ lastCall.threw
        /\ lastCall.error \in {ErrParseRoutes, ErrNoImport}
        /\ ~lastCall.wrote
        /\ routesFile = lastCall.routesBefore

\* C6's case: the import line is missing (single quotes) and routes are added.
C6_Witness ==
    /\ lastCall.op = "updateRoutesFile"
    /\ lastCall.routesBefore = RoutesText(RegSingleQuoted)
    /\ lastCall.arg = PrismaRoutes
    /\ lastCall.error = ErrNoImport
    /\ routesFile = RoutesText(RegSingleQuoted)

\* C7: without app/routes.ts the call returns normally, creates neither that
\* file nor any other, and changes nothing.
C7_NoRegistryNoOp ==
    (lastCall.op = "updateRoutesFile" /\ ~lastCall.routesBefore.exists) =>
        /\ ~lastCall.threw
        /\ ~lastCall.wrote
        /\ ~routesFile.exists
        /\ files = lastCall.filesBefore
        /\ pkgFile = lastCall.pkgBefore

\* C7's case: routes are to be added and there is no registry.
C7_Witness ==
    /\ lastCall.op = "updateRoutesFile"
    /\ lastCall.arg = PrismaRoutes
    /\ ~lastCall.routesBefore.exists
    /\ ~routesFile.exists


(***************************************************************************)
(* The orchestrator's claims (Spec).                                       *)
(***************************************************************************)
\* The phase an integration procedure belongs to, by its name.
PhaseRank(proc) ==
    IF proc \in {"integratePrisma", "integrateDrizzle"} THEN 1
    ELSE IF proc \in {"integrateBetterAuthWithPrisma", "integrateBetterAuthWithDrizzle",
                      "integrateBetterAuth"} THEN 2
    ELSE 3

\* C9: in every run, CLI or interactive, the database integration has returned
\* before the auth integration is called and the auth integration has returned
\* before Polar is called: the calls of a run are in strictly rising phase
\* order, and a call is only followed by another when it has returned normally.
C9_DatabaseThenAuthThenServices ==
    /\ \A i, j \in 1..Len(calls) :
           i < j => PhaseRank(calls[i].proc) < PhaseRank(calls[j].proc)
    /\ \A i \in 1..(Len(calls) - 1) : ~calls[i].threw

\* C9's case: an interactive run that selected Drizzle, Better Auth and Polar
\* has called all three.
C9_Witness ==
    /\ request.mode = "interactive"
    /\ Len(calls) = 3
    /\ calls[1].proc = "integrateDrizzle"
    /\ calls[2].proc = "integrateBetterAuthWithDrizzle"
    /\ calls[3].proc = "integratePolar"
    /\ exitCode = "0"

\* The files integratePrisma is to leave in a project, with and without routes.
PrismaExpectedFiles(includeRoutes) ==
    {"prisma/schema.prisma", "app/lib/prisma.ts", "prisma/seed.ts"}
        \cup (IF includeRoutes THEN Range(PrismaRouteFiles) ELSE {})

AuthExpectedFiles ==
    {"app/lib/auth.server.ts", "app/lib/auth-client.ts", "app/routes/api/auth/route.ts"}
        \cup Range(AuthPageFiles)

\* C10: when npm install fails inside integratePrisma or
\* integrateBetterAuthWithPrisma, the procedure does not throw: it warns, and
\* every file it writes exists and its scripts are in the manifest when it ends.
C10_InstallFailureIsOnlyAWarning ==
    /\ (/\ lastCall.op = "integratePrisma"
        /\ ~shell.installOk
        /\ ReadableObject(lastCall.pkgBefore)
        /\ ~dependenciesExist(lastCall.pkgBefore, PrismaDeps)) =>
           /\ ~lastCall.threw
           /\ \A path \in PrismaExpectedFiles(lastCall.arg[1]) : fileExists(files, path)
           /\ Keys(PrismaScripts) \subseteq Keys(BlockPairs(pkgFile.value, "scripts"))
    /\ (/\ lastCall.op = "integrateBetterAuthWithPrisma"
        /\ ~shell.installOk
        /\ ReadableObject(lastCall.pkgBefore)
        /\ ~dependenciesExist(lastCall.pkgBefore, AuthDeps)) =>
           /\ ~lastCall.threw
           /\ \A path \in AuthExpectedFiles : fileExists(files, path)
           /\ Keys(AuthScripts) \subseteq Keys(BlockPairs(pkgFile.value, "scripts"))

(***************************************************************************)
(* The procedures' effect on files that are already there.                 *)
(***************************************************************************)
\* Something is at the path in the tree.
Present(tree, path) == tree[path] # Absent

\* The paths at which a tree holds a file (not a directory).
FilesOf(tree) == {path \in Paths : tree[path] # Absent /\ tree[path] # Directory}

\* C11: no integration procedure overwrites a file that already exists: every
\* file that is in the project when a procedure is called has the same content
\* when the procedure ends.
C11_ExistingFilesKept ==
    lastCall.op # "none" =>
        \A path \in FilesOf(lastCall.filesBefore) : files[path] = lastCall.filesBefore[path]

\* Nothing but the client's presence stands in integratePrisma's way: the
\* packages install or are installed, prisma init works or has nothing to do,
\* the manifest holds an object, the registry is absent, unused or usable.
PrismaUnhindered ==
    /\ ReadableObject(lastCall.pkgBefore)
    /\ shell.installOk \/ dependenciesExist(lastCall.pkgBefore, PrismaDeps)
    /\ shell.toolOk \/ Present(lastCall.filesBefore, "prisma")
    /\ \/ ~lastCall.arg[1]
       \/ ~lastCall.routesBefore.exists
       \/ /\ ContainsExportPattern(lastCall.routesBefore.content)
          /\ ContainsImportLine(lastCall.routesBefore.content)

\* C12: when app/lib/prisma.ts exists before integratePrisma runs, its content
\* is the same after the run; a run that gets past the client step has warned
\* about it instead of writing; and a run that nothing else hinders returns
\* normally with the seed file written and the Prisma scripts in the manifest.
C12_ExistingClientSkipped ==
    (/\ lastCall.op = "integratePrisma"
     /\ Present(lastCall.filesBefore, "app/lib/prisma.ts")) =>
        /\ files["app/lib/prisma.ts"] = lastCall.filesBefore["app/lib/prisma.ts"]
        /\ ~lastCall.threw => "app/lib/prisma.ts" \in calls[Len(calls)].warnings
        /\ PrismaUnhindered =>
               /\ ~lastCall.threw
               /\ Present(files, "prisma/seed.ts")
               /\ Present(files, "prisma/schema.prisma")
               /\ Keys(PrismaScripts) \subseteq Keys(BlockPairs(pkgFile.value, "scripts"))

\* C12's case: integratePrisma has run to its end in a project that had the
\* user's own client, and the client is still the user's.
C12_Witness ==
    /\ lastCall.op = "integratePrisma"
    /\ lastCall.filesBefore["app/lib/prisma.ts"] = UserContent
    /\ ~lastCall.threw
    /\ files["app/lib/prisma.ts"] = UserContent
    /\ "app/lib/prisma.ts" \in calls[Len(calls)].warnings
    /\ Present(files, "prisma/seed.ts")

\* The entries of a registry text that are not holes.
WrittenEntries(text) == SelectSeq(RegistryEntries(text), LAMBDA e : e # <<>>)

\* integratePrisma was called with routes enabled on a project whose manifest
\* is {"scripts":{}} and that has none of the Prisma files, and npm and the
\* Prisma CLI work.
FreshPrismaRun ==
    /\ lastCall.op = "integratePrisma"
    /\ lastCall.arg[1]
    /\ lastCall.pkgBefore = UserJson(ManifestEmpty)
    /\ \A path \in PrismaExpectedFiles(TRUE) \cup {"prisma"} :
           ~Present(lastCall.filesBefore, path)
    /\ shell.installOk
    /\ shell.toolOk

\* C13: from a manifest {"scripts":{}} and no Prisma files, integratePrisma
\* with routes returns normally, the manifest's scripts are exactly db:generate,
\* db:push and db:seed, the three route files exist, and a registry that was
\* there and matched the pattern has its old entries and then exactly the
\* three path-form entries /posts, /posts/:postId, /posts/new, in this order;
\* a project without a registry still has none.
C13_FreshProjectGetsScriptsFilesAndRoutes ==
    FreshPrismaRun =>
        /\ ~lastCall.threw
        /\ Keys(BlockPairs(pkgFile.value, "scripts")) = {"db:generate", "db:push", "db:seed"}
        /\ \A path \in Range(PrismaRouteFiles) : Present(files, path)
        /\ IF lastCall.routesBefore.exists
           THEN ContainsExportPattern(lastCall.routesBefore.content) =>
                    WrittenEntries(routesFile.content)
                        = WrittenEntries(lastCall.routesBefore.content)
                              \o newRouteEntries(<<Route(PathPosts, FilePosts),
                                                   Route(PathPost, FilePost),
                                                   Route(PathPostNew, FilePostNew)>>)
           ELSE ~routesFile.exists

\* C13's case: such a run on a project with a registry has ended.
C13_Witness ==
    /\ FreshPrismaRun
    /\ lastCall.routesBefore.exists
    /\ ~lastCall.threw
    /\ Len(WrittenEntries(routesFile.content))
           = Len(WrittenEntries(lastCall.routesBefore.content)) + 3
    /\ Present(files, "app/routes/posts.new.tsx")

(***************************************************************************)
(* The run: modes, selections, validation.                                 *)
(***************************************************************************)
\* The command line carries at least one of --orm/--db, --database-type,
\* --auth, --services.
CarriesIntegrationFlag(argv) ==
    \/ argv.orm # "undefined"
    \/ argv.databaseType # "undefined"
    \/ argv.auth # "undefined"
    \/ argv.services # <<>>

\* C14: a run whose arguments were accepted is in interactive mode exactly when
\* the command line carries no integration flag; with any of --orm,
\* --database-type, --auth or --services it is in CLI mode and never prompts.
C14_InteractiveIffNoFlag ==
    request.mode \in {"cli", "interactive"} =>
        (request.mode = "interactive" <=> ~CarriesIntegrationFlag(request.argv))

\* The services the run was asked for, on the command line or at the prompt.
RequestedServices == Range(request.argv.services) \cup Range(request.answers.services)

\* C15: a run that was asked for railway and has ended has called
\* integrateRailway, after the database and the auth procedures.
C15_RailwayIsIntegrated ==
    (pc.at = "exited" /\ "railway" \in RequestedServices) =>
        \E i \in 1..Len(calls) :
            /\ calls[i].proc = "integrateRailway"
            /\ \A j \in 1..Len(calls) : PhaseRank(calls[j].proc) < 3 => j < i

\* The same choices, as the other mode is given them.
AsAnswers(argv) ==
    Answers(orDefault(argv.orm, "none"), argv.databaseType, orDefault(argv.auth, "none"),
            argv.routes # FALSE, argv.services)

AsArgv(answers) ==
    Argv(IF answers.database = "none" THEN "undefined" ELSE answers.database,
         answers.databaseType,
         IF answers.auth = "none" THEN "undefined" ELSE answers.auth,
         answers.includeRoutes, answers.services)

\* The procedures a mode calls for a selection, with their arguments, when
\* none of them throws.
PlannedCalls(phases, sel) ==
    LET call(i) == phaseCall(phases[i], sel, Started(pkgFile, routesFile, files), shell)
        made == {i \in 1..Len(phases) : call(i).proc # "none"}
        nth(n) == CHOOSE i \in made : Cardinality({j \in made : j < i}) = n - 1
    IN  [n \in 1..Cardinality(made) |-> [proc |-> call(nth(n)).proc, args |-> call(nth(n)).args]]

MadeCalls == [i \in 1..Len(calls) |-> [proc |-> calls[i].proc, args |-> calls[i].args]]

IsPrefix(s, t) == Len(s) <= Len(t) /\ SubSeq(t, 1, Len(s)) = s

\* C16: the calls a run has made, procedure and argument values, are the
\* calls the other mode makes for the same choices: a CLI run's calls are a
\* prefix of the interactive mode's calls for its flags given as answers, and
\* an interactive run's calls, when its answers can be given as flags that
\* select CLI mode, are a prefix of the CLI mode's calls for them.
C16_ModesMakeTheSameCalls ==
    /\ request.mode = "cli" =>
           IsPrefix(MadeCalls,
                    PlannedCalls(interactivePhases,
                                 interactiveSelection(AsAnswers(request.argv))))
    /\ (/\ request.mode = "interactive"
        /\ pc.at \in {"interactive", "exited"}
        /\ validateInquirerAnswers(request.answers)
        /\ hasCliArgs(AsArgv(request.answers))) =>
           IsPrefix(MadeCalls,
                    PlannedCalls(cliPhases, cliSelection(AsArgv(request.answers))))

\* What the run selected, whichever mode it is in.
SelectedOrm ==
    IF request.mode = "cli" THEN orDefault(request.argv.orm, "none")
    ELSE request.answers.database

AuthSelected ==
    IF request.mode = "cli" THEN request.argv.auth = "better-auth"
    ELSE request.mode = "interactive" /\ request.answers.auth = "better-auth"

AuthCalls == {i \in 1..Len(calls) : PhaseRank(calls[i].proc) = 2}

\* The registry is absent or one the patcher can use.
UsableRegistry(file) ==
    file.exists => ContainsExportPattern(file.content) /\ ContainsImportLine(file.content)

\* C17: a run calls at most one auth procedure, the one of the run's ORM
\* (integrateBetterAuthWithPrisma, integrateBetterAuthWithDrizzle, or
\* integrateBetterAuth without an ORM); a run that selected better-auth and
\* ended with 0 has called exactly one; and the standalone procedure, called
\* with npm working, a manifest holding an object and a usable registry,
\* returns normally with the auth files written.
C17_AuthProcedureFollowsOrm ==
    /\ Cardinality(AuthCalls) <= 1
    /\ \A i \in AuthCalls :
           /\ AuthSelected
           /\ calls[i].proc =
                  (IF SelectedOrm = "prisma" THEN "integrateBetterAuthWithPrisma"
                   ELSE IF SelectedOrm = "drizzle" THEN "integrateBetterAuthWithDrizzle"
                   ELSE "integrateBetterAuth")
    /\ (exitCode = "0" /\ AuthSelected) => Cardinality(AuthCalls) = 1
    /\ (/\ Len(calls) = 1
        /\ calls[1].proc = "integrateBetterAuth"
        /\ ReadableObject(lastCall.pkgBefore)
        /\ shell.installOk \/ dependenciesExist(lastCall.pkgBefore, AuthDeps)
        /\ UsableRegistry(lastCall.routesBefore)) =>
           /\ ~calls[1].threw
           /\ \A path \in AuthExpectedFiles : fileExists(files, path)

\* C17's case: a run without an ORM selected better-auth, and the standalone
\* procedure has returned normally.
C17_Witness ==
    /\ AuthSelected
    /\ SelectedOrm = "none"
    /\ Len(calls) = 1
    /\ calls[1].proc = "integrateBetterAuth"
    /\ ~calls[1].threw
    /\ fileExists(files, "app/lib/auth.server.ts")

\* getDatabaseTypeChoices(orm): the database types of an ORM.
getDatabaseTypeChoices(orm) ==
    IF orm = "prisma"
    THEN {"postgresql", "mysql", "sqlite", "mongodb", "sqlserver", "cockroachdb"}
    ELSE IF orm = "drizzle"
    THEN {"postgres", "neon", "vercel-postgres", "supabase", "mysql", "planetscale",
          "sqlite", "turso", "d1"}
    ELSE {}

\* C18: a command line whose --database-type is not one of the chosen ORM's
\* types is rejected: the run calls no integration procedure and does not end
\* with 0.
C18_DatabaseTypeOfTheOrm ==
    (/\ request.argv.orm \in OrmChoices
     /\ request.argv.databaseType # "undefined"
     /\ request.argv.databaseType \notin getDatabaseTypeChoices(request.argv.orm)) =>
        /\ calls = <<>>
        /\ exitCode # "0"

\* C19: in a directory without package.json the only step of the run is the
\* exit with code 1: the arguments are not parsed, no procedure is called, and
\* the manifest, the registry and the files are left as they are.
C19_NoManifestExitsFirst ==
    [][~pkg0.exists =>
          /\ exitCode' = "1"
          /\ pc.at = "start"
          /\ request' = request
          /\ calls' = <<>>
          /\ UNCHANGED <<pkgFile, routesFile, files>>]_vars

\* C19's case: the run in a directory without package.json has exited.
C19_Witness ==
    /\ ~pkg0.exists
    /\ pc.at = "exited"
    /\ exitCode = "1"
    /\ request.mode = "none"
    /\ calls = <<>>

\* CliArgsSchema and InquirerAnswersSchema, as written.
MatchesCliArgsSchema(argv) ==
    /\ argv.orm \in {"prisma", "drizzle", "undefined"}
    /\ argv.auth \in {"better-auth", "undefined"}
    /\ argv.databaseType \in
           {"postgresql", "mysql", "sqlite", "mongodb", "sqlserver", "cockroachdb",
            "postgres", "neon", "vercel-postgres", "supabase", "planetscale", "turso",
            "d1", "undefined"}
    /\ \A i \in 1..Len(argv.services) : argv.services[i] = "polar"

MatchesInquirerAnswersSchema(answers) ==
    /\ answers.database \in {"prisma", "drizzle", "none"}
    /\ answers.auth \in {"better-auth", "none"}
    /\ answers.databaseType \in
           {"postgresql", "mysql", "sqlite", "mongodb", "sqlserver", "cockroachdb",
            "postgres", "neon", "vercel-postgres", "supabase", "planetscale", "turso",
            "d1", "undefined"}
    /\ \A i \in 1..Len(answers.services) : answers.services[i] = "polar"

\* C20: a run whose arguments or whose answers do not match their schema ends
\* with code 1 and has called no integration procedure; and a run that has
\* called a procedure is in a mode, with arguments that match and, in
\* interactive mode, answers that match: validation comes before the first call.
C20_ValidationBeforeIntegration ==
    /\ (\/ ~MatchesCliArgsSchema(request.argv)
        \/ ~MatchesInquirerAnswersSchema(request.answers)) =>
           /\ pc.at = "exited"
           /\ exitCode = "1"
           /\ calls = <<>>
           /\ lastCall = NoCall
    /\ calls # <<>> =>
           /\ request.mode \in {"cli", "interactive"}
           /\ MatchesCliArgsSchema(request.argv)
           /\ request.mode = "interactive" => MatchesInquirerAnswersSchema(request.answers)

\* C20's case: the answers named a service the schema does not know, and the
\* run has exited with 1 without a call.
C20_Witness ==
    /\ request.mode = "interactive"
    /\ ~MatchesInquirerAnswersSchema(request.answers)
    /\ pc.at = "exited"
    /\ exitCode = "1"
    /\ calls = <<>>

(***************************************************************************)
(* The environment template, the routes switch, exit codes, no rollback.   *)
(***************************************************************************)
\* C21: .env.example only grows by appending: whatever procedure runs, the
\* content the file had before the procedure is a prefix of its content after.
C21_EnvTemplateOnlyGrows ==
    (lastCall.op # "none" /\ Present(lastCall.filesBefore, ".env.example")) =>
        IsPrefix(lastCall.filesBefore[".env.example"], files[".env.example"])

\* The example route files of the two ORM integrations.
ExampleRouteFiles == Range(PrismaRouteFiles) \cup Range(DrizzleRouteFiles)

\* The run's routes switch: --no-routes, or the confirmation answered no.
RoutesDisabled ==
    IF request.mode = "cli" THEN request.argv.routes = FALSE
    ELSE request.mode = "interactive" /\ ~request.answers.includeRoutes

\* C22: a run with example routes disabled calls its ORM procedure with
\* includeRoutes false, and an ORM procedure called with includeRoutes false
\* leaves every example route file and app/routes.ts as they were.
C22_NoRoutesLeavesRegistryAlone ==
    lastCall.op \in {"integratePrisma", "integrateDrizzle"} =>
        /\ RoutesDisabled => lastCall.arg[1] = FALSE
        /\ lastCall.arg[1] = FALSE =>
               /\ routesFile = lastCall.routesBefore
               /\ \A path \in ExampleRouteFiles : files[path] = lastCall.filesBefore[path]

\* C22's case: integrateDrizzle has returned normally in a run with routes
\* disabled on a project that has a registry, and there is no route file.
C22_Witness ==
    /\ RoutesDisabled
    /\ lastCall.op = "integrateDrizzle"
    /\ ~lastCall.threw
    /\ lastCall.routesBefore.exists
    /\ Present(files, "lib/db/schema.ts")
    /\ \A path \in ExampleRouteFiles : ~Present(files, path)

\* What makes a run fail: no package.json, arguments or answers that do not
\* match, or a procedure that threw.
RunFailed ==
    \/ ~pkg0.exists
    \/ ~MatchesCliArgsSchema(request.argv)
    \/ ~MatchesInquirerAnswersSchema(request.answers)
    \/ \E i \in 1..Len(calls) : calls[i].threw

\* C23: a process that has exited has code 1 when package.json was missing,
\* the arguments or answers were invalid or a procedure threw, and code 0
\* otherwise; a process that has not exited has no code.
C23_ExitCodes ==
    IF pc.at = "exited"
    THEN exitCode = (IF RunFailed THEN "1" ELSE "0")
    ELSE exitCode = "running"

\* C23's case: a procedure threw in the second phase and the process exited
\* with 1.
C23_Witness ==
    /\ pc.at = "exited"
    /\ exitCode = "1"
    /\ Len(calls) = 2
    /\ calls[2].threw

\* The names under a mapping of the manifest, none when it cannot be read.
ManifestKeys(file, block) ==
    IF ReadableObject(file) THEN Keys(BlockPairs(file.value, block)) ELSE {}

\* C24: no step of a run undoes anything: a path that holds something holds
\* something after the step, the manifest keeps every script and dependency
\* name it had, and the registry keeps its entries as the first entries;
\* this is so on the step of a procedure that throws and on the exit.
C24_NoRollback ==
    [][/\ \A path \in Paths : Present(files, path) => Present(files', path)
       /\ pkgFile.exists => pkgFile'.exists
       /\ ManifestKeys(pkgFile, "scripts") \subseteq ManifestKeys(pkgFile', "scripts")
       /\ ManifestKeys(pkgFile, "dependencies") \subseteq ManifestKeys(pkgFile', "dependencies")
       /\ routesFile.exists =>
              /\ routesFile'.exists
              /\ ContainsExportPattern(routesFile.content) =>
                     IsPrefix(WrittenEntries(routesFile.content),
                              WrittenEntries(routesFile'.content))]_vars

\* C24's case: the database procedure completed, a later procedure threw, the
\* process has exited with 1, and what the database procedure wrote is there.
C24_Witness ==
    /\ pc.at = "exited"
    /\ exitCode = "1"
    /\ Len(calls) >= 2
    /\ calls[1].proc = "integratePrisma"
    /\ ~calls[1].threw
    /\ calls[Len(calls)].threw
    /\ files["prisma/schema.prisma"] = Template("prisma-schema", prismaProvider(calls[1].args[2]))
    /\ "db:seed" \in ManifestKeys(pkgFile, "scripts")

(***************************************************************************)
(* The registry file as written, dependenciesExist, re-runs.               *)
(***************************************************************************)
\* C25: the file a successful updateRoutesFile writes is the import statement
\* of the old file (as it was, or with route added), a blank line, and the
\* array literal from "export default [" to "] satisfies RouteConfig;" holding
\* the old body and the new entries; it starts with the import, ends with the
\* array's close, and holds one import and one array.
C25_RegistryIsImportAndArray ==
    (lastCall.op = "updateRoutesFile" /\ lastCall.wrote) =>
        LET old == lastCall.routesBefore.content
            new == routesFile.content
            body == join(allRoutes(trim(exportMatch(old).group1), lastCall.arg), JoinSep)
        IN  /\ \E I \in {ImportOf(old), replace(ImportOf(old), IndexWord, RouteIndexWords)} :
                   new = I \o <<NL, NL>> \o ExportOpen \o body \o ExportClose
            /\ Occurrences(new, ImportWord) = {1}
            /\ Cardinality(Occurrences(new, ExportOpen)) = 1
            /\ IsAt(new, ExportClose, Len(new) - Len(ExportClose) + 1)

\* C25's case: the old file had a comment line above the import, and the file
\* written has none.
C25_Witness ==
    /\ lastCall.op = "updateRoutesFile"
    /\ lastCall.wrote
    /\ IsAt(lastCall.routesBefore.content, CommentLine, 1)
    /\ ~includes(routesFile.content, CommentLine)
    /\ Len(lastCall.arg) > 0

\* The names a manifest declares under dependencies and devDependencies.
DeclaredDependencies(file) ==
    ManifestKeys(file, "dependencies") \cup ManifestKeys(file, "devDependencies")

\* C26: dependenciesExist(deps) writes nothing and does not throw; on a
\* manifest that holds an object it returns true exactly when every name of
\* deps is declared under dependencies or devDependencies; on a missing or
\* unparsable package.json it returns false.
C26_DependenciesExistIsMembership ==
    lastCall.op = "dependenciesExist" =>
        /\ ~lastCall.threw
        /\ pkgFile = lastCall.pkgBefore
        /\ routesFile = lastCall.routesBefore
        /\ files = lastCall.filesBefore
        /\ ReadableObject(lastCall.pkgBefore) =>
               (lastCall.result <=> lastCall.arg \subseteq DeclaredDependencies(lastCall.pkgBefore))
        /\ (~lastCall.pkgBefore.exists \/ ~lastCall.pkgBefore.parses) => ~lastCall.result

\* The route entries a procedure registers.
RegisteredRoutes(proc) ==
    IF proc = "integratePrisma" THEN PrismaRoutes
    ELSE IF proc = "integrateDrizzle" THEN DrizzleRoutes
    ELSE IF proc \in {"integrateBetterAuthWithPrisma", "integrateBetterAuthWithDrizzle",
                      "integrateBetterAuth"} THEN AuthRoutes
    ELSE <<>>

\* C27: after a procedure has returned normally on a project whose registry
\* matches the pattern, however often it ran before, each route entry of the
\* procedure is in the registry array exactly once.
C27_RoutesRegisteredOnce ==
    (/\ lastCall.op # "none"
     /\ ~lastCall.threw
     /\ lastCall.arg # <<FALSE, "postgresql">>
     /\ routesFile.exists
     /\ ContainsExportPattern(routesFile.content)) =>
        LET entries == RegistryEntries(routesFile.content)
            mine == newRouteEntries(RegisteredRoutes(lastCall.op))
        IN  \A k \in 1..Len(mine) :
                Cardinality({i \in 1..Len(entries) : entries[i] = mine[k]}) = 1

\* The value of a script in the manifest, undefined when it is not there.
ScriptValue(file, name) ==
    IF ReadableObject(file) THEN Get(BlockPairs(file.value, "scripts"), name) ELSE Undefined

\* C28: after integratePrisma has returned normally, db:generate, db:push and
\* db:seed are the Prisma commands and the manifest carries prisma.seed,
\* whatever it held before; after integrateDrizzle has, the db:* scripts are
\* the Drizzle commands.
C28_ScriptsOfTheLastOrm ==
    /\ (lastCall.op = "integratePrisma" /\ ~lastCall.threw) =>
           /\ \A i \in 1..Len(PrismaScripts) :
                  ScriptValue(pkgFile, PrismaScripts[i].k) = PrismaScripts[i].v
           /\ "seed" \in ManifestKeys(pkgFile, "prisma")
    /\ (lastCall.op = "integrateDrizzle" /\ ~lastCall.threw) =>
           \A i \in 1..Len(DrizzleScripts) :
               ScriptValue(pkgFile, DrizzleScripts[i].k) = DrizzleScripts[i].v

\* The provider Better Auth's Drizzle adapter is to be given for a database type.
AdapterProvider(databaseType) ==
    IF databaseType \in {"postgres", "neon", "vercel-postgres", "supabase"} THEN "pg"
    ELSE IF databaseType = "planetscale" THEN "mysql"
    ELSE "sqlite"

\* The database type the run chose for Drizzle.
ChosenDrizzleType ==
    IF request.mode = "cli" THEN orDefault(request.argv.databaseType, "turso")
    ELSE orDefault(request.answers.databaseType, "turso")

\* C29: in a run with Drizzle and better-auth, the auth server file that
\* integrateBetterAuthWithDrizzle writes names the provider of the database
\* type chosen for Drizzle in that run.
C29_AuthProviderFollowsDrizzleType ==
    (/\ lastCall.op = "integrateBetterAuthWithDrizzle"
     /\ ~lastCall.threw
     /\ ~Present(lastCall.filesBefore, "app/lib/auth.server.ts")) =>
        files["app/lib/auth.server.ts"]
            = Template("auth-server-drizzle", AdapterProvider(ChosenDrizzleType))

\* What promptUserPreferences can return: the type list is that of the chosen
\* ORM and is not asked without one; the services are any of polar and railway.
PromptOffers(answers) ==
    /\ answers.database \in {"prisma", "drizzle", "none"}
    /\ IF answers.database = "none" THEN answers.databaseType = "undefined"
       ELSE answers.databaseType \in getDatabaseTypeChoices(answers.database)
    /\ answers.auth \in {"better-auth", "none"}
    /\ answers.includeRoutes \in BOOLEAN
    /\ Range(answers.services) \subseteq {"polar", "railway"}

\* C30: an interactive run whose answers are among those the prompts offer
\* does not end on the validation of the answers: once the answers are in,
\* the run is in its integration phases, or it has exited after them.
C30_OfferedAnswersAreValid ==
    (/\ request.mode = "interactive"
     /\ pc.at # "prompt"
     /\ PromptOffers(request.answers)) =>
        /\ validateInquirerAnswers(request.answers)
        /\ ~(pc.at = "exited" /\ exitCode = "1" /\ calls = <<>>)
=============================================================================
